---- MODULE Spec2Model ----
(***************************************************************************)
(* A model of the two cores of the repository:                             *)
(*   - src/Malloc/mm.c    : the segregated-list heap allocator             *)
(*   - src/Proxy/cache.c  : the LRU content cache with reader/writer gates *)
(* The heap is modelled word by word (4-byte words, as PUTW/GETW see it),  *)
(* free-list links occupy two words (PUTD/GETD).                           *)
(***************************************************************************)
EXTENDS Integers, Sequences, FiniteSets, TLC

(***************************************************************************)
(* Program constants of mm.c                                               *)
(***************************************************************************)
WSIZE == 4
DSIZE == 8
ALIGNMENT == 8
CHUNKSIZE == 168
MINIMUM_BLK_SIZE == 24
MINIMUM_PAYLOAD_SIZE == 16
HEADER_SIZE == 8
LISTS == 13
MAX_SIZE_01 == 32
MAX_SIZE_02 == 64
MAX_SIZE_03 == 128
MAX_SIZE_04 == 256
MAX_SIZE_05 == 512
MAX_SIZE_06 == 1024
MAX_SIZE_07 == 2048
MAX_SIZE_08 == 4096
MAX_SIZE_09 == 8192
MAX_SIZE_10 == 16384
MAX_SIZE_11 == 32768
MAX_SIZE_12 == 65536
NULL == 0

(***************************************************************************)
(* Bounds of the model                                                     *)
(***************************************************************************)
\* number of allocator calls in one behaviour
MaxOps == 4
\* the heap substrate refuses to grow the heap beyond this many bytes
MaxHeap == 460
\* size_t has 64 bits on the machine mm.c is written for; the model keeps
\* the arithmetic on request sizes modulo 2^SizeBits
SizeBits == 16
\* the substrate of the client that asks for more than one chunk at a time
\* refuses to grow the heap beyond this many bytes
BigHeap == 720
\* proxy.c: the largest response the worker hands to the cache
\* (MAX_OBJECT_SIZE, 102400 bytes in proxy.c), the longest line or chunk one
\* read from the server returns (MAXLINE of csapp.h), the numbers of header
\* lines and body chunks of a response, and the width of int and unsigned int
\* (32 bits in proxy.c)
MAX_OBJECT_SIZE == 4
MaxLine == 2
MaxHeaders == 1
MaxChunks == 2
IntBits == 5

\* request sizes (bytes) the client draws from
Sizes == {16, 100}

\* the state of the allocator
VARIABLES
    mem,        \* heap contents: word index -> value of the 4-byte word
    brk,        \* heap size in bytes (mem_brk - mem_heap_lo)
    origin,     \* char *origin: start of the list directory
    heap_listp, \* char *heap_listp: payload address of the prologue
    live,       \* blocks handed to the client and not yet freed: payload
                \* address -> block size when the call returned
    written,    \* addresses of the words the allocator wrote in the last call
    lastOp,     \* the last call: its name, arguments (with the block size of
                \* its pointer argument before the call) and result
    nops,       \* number of calls made
    crashed,    \* the process died on a store outside the heap
    mem_max     \* bytes the substrate grants (mem_max_addr - mem_heap_lo)

mmvars == <<mem, brk, origin, heap_listp, live, written, lastOp, nops, crashed, mem_max>>

\* the state of the cache
VARIABLES
    my_cache,   \* the proxy_cache structure: space, max_object_size, root,
                \* readcnt, mutex_read, mutex_write
    blocks,     \* memory at the block addresses: address -> cache_block
    allocated,  \* addresses of the blocks that are allocated and not freed
    pc,         \* thread -> where it is in its call
    loc,        \* thread -> arguments, locals and result of its call
    ncalls,     \* number of calls started
    dead,       \* the process died (null dereference, double free)
    stored,     \* writes that returned 1 and whose block no write evicted
    recency,    \* numbers of the writes whose entry is in the cache, the most
                \* recently read or written first
    evLog       \* the evictions of the last write: victim, least recent
                \* entry, space before, len

cachevars == <<my_cache, blocks, allocated, pc, loc, ncalls, dead, stored, recency, evLog>>

\* the state of one worker of the proxy in doit
VARIABLES
    ppc,             \* where the worker is in doit
    cache_enable,    \* static int cache_enable
    cache_read_len,  \* result of read_cache, -1 when the cache is not used
    upstream,        \* the results of the reads from the server still to come
    clientOk,        \* writes to the client that succeed before one fails
    server_response, \* bytes in the line buffer
    read_len,        \* unsigned int read_len
    cache_content,   \* the local buffer: offset -> byte, 0 where never stored
    cache_write_len, \* int cache_write_len
    forwarded,       \* bytes written to the client
    proxyfd,         \* the descriptor of the connection to the server
    cache_write,     \* the call of write_cache the worker made: buffer and len
    received,        \* bytes the reads from the server delivered
    exceeded         \* cache_write_len has been above MAX_OBJECT_SIZE

proxyvars == <<ppc, cache_enable, cache_read_len, upstream, clientOk, server_response,
               read_len, cache_content, cache_write_len, forwarded, proxyfd,
               cache_write, received, exceeded>>

(***************************************************************************)
(* Heap substrate (memlib): a contiguous region starting at mem_heap_lo    *)
(***************************************************************************)
\* first byte of the heap: a non-null doubleword-aligned address, further
\* from the failure value of mem_sbrk than the directory is long
mem_heap_lo == 16 * DSIZE

Idx(p) == (p - mem_heap_lo) \div WSIZE

\* the value of fresh bytes handed out by the substrate (never read by mm.c)
Fresh == -1

\* grow(n): extend the heap by exactly incr bytes and return the address of
\* the first new byte, or -1 when the substrate refuses
mem_sbrk(h, incr) ==
    IF h.brk + incr > h.max
    THEN [h |-> h, ret |-> -1]
    ELSE [h |-> [h EXCEPT !.brk = h.brk + incr,
                          !.m = [i \in 0..((h.brk + incr) \div WSIZE - 1) |->
                                    IF i < h.brk \div WSIZE THEN h.m[i] ELSE Fresh]],
          ret |-> mem_heap_lo + h.brk]

(***************************************************************************)
(* Macros of mm.c.  h is the heap during a call: h.m the words, h.brk the  *)
(* size, h.max the size the substrate grants, h.origin and h.heap_listp    *)
(* the two globals, h.w the addresses stored to so far by the call.        *)
(***************************************************************************)
MAX(x, y) == IF x > y THEN x ELSE y

\* the values of size_t: unsigned arithmetic wraps at SizeMod
SizeMod == 2 ^ SizeBits

ALIGN(p) == (((p + (ALIGNMENT - 1)) % SizeMod) \div 8) * 8

\* size | alloc
PACK(size, alloc) == IF size % 2 = 1 THEN size ELSE size + alloc

\* p is the address of a word of the heap
Mapped(h, p) == p >= mem_heap_lo /\ p + WSIZE <= mem_heap_lo + h.brk /\ p % WSIZE = 0

\* a store outside the heap changes no word of the heap
GETW(h, p) == h.m[Idx(p)]
PUTW(h, p, val) ==
    IF Mapped(h, p)
    THEN [h EXCEPT !.m[Idx(p)] = val, !.w = @ \cup {p}]
    ELSE [h EXCEPT !.w = @ \cup {p}]

\* an 8-byte value: low word first; the addresses of the model fit the low word
GETD(h, p) == IF h.m[Idx(p) + 1] = 0 THEN h.m[Idx(p)] ELSE -1
PUTD(h, p, val) ==
    IF Mapped(h, p) /\ Mapped(h, p + WSIZE)
    THEN [h EXCEPT !.m[Idx(p)] = val, !.m[Idx(p) + 1] = 0, !.w = @ \cup {p, p + WSIZE}]
    ELSE [h EXCEPT !.w = @ \cup {p, p + WSIZE}]

GET_SIZE(h, p) == GETW(h, p) - (GETW(h, p) % 8)
GET_ALLOC(h, p) == GETW(h, p) % 2

HDRP(bp) == bp - WSIZE
FTRP(h, bp) == bp + GET_SIZE(h, HDRP(bp)) - DSIZE

NEXT_BLKP(h, bp) == bp + GET_SIZE(h, bp - WSIZE)
PREV_BLKP(h, bp) == bp - GET_SIZE(h, bp - DSIZE)

NEXT_FREE_BLKP(h, bp) == GETD(h, bp + DSIZE)
PREV_FREE_BLKP(h, bp) == GETD(h, bp)
SET_NEXT_FREE_BLKP(h, bp, n_bp) == PUTD(h, bp + DSIZE, n_bp)
SET_PREV_FREE_BLKP(h, bp, p_bp) == PUTD(h, bp, p_bp)

LIST(h, list) == h.origin + ((list - 1) * DSIZE)
GET_LISTP(h, list) == GETD(h, LIST(h, list))
SET_LISTP(h, list, bp) == PUTD(h, LIST(h, list), bp)

(***************************************************************************)
(* Utility functions of mm.c                                               *)
(***************************************************************************)
\* a plausible slip: the thresholds are compared with < instead of <=
get_list_index_strict(a_size) ==
    IF a_size = 0 THEN 0
    ELSE IF a_size < MAX_SIZE_01 THEN 1
    ELSE IF a_size < MAX_SIZE_02 THEN 2
    ELSE IF a_size < MAX_SIZE_03 THEN 3
    ELSE IF a_size < MAX_SIZE_04 THEN 4
    ELSE IF a_size < MAX_SIZE_05 THEN 5
    ELSE IF a_size < MAX_SIZE_06 THEN 6
    ELSE IF a_size < MAX_SIZE_07 THEN 7
    ELSE IF a_size < MAX_SIZE_08 THEN 8
    ELSE IF a_size < MAX_SIZE_09 THEN 9
    ELSE IF a_size < MAX_SIZE_10 THEN 10
    ELSE IF a_size < MAX_SIZE_11 THEN 11
    ELSE IF a_size < MAX_SIZE_12 THEN 12
    ELSE 13

get_list_index(a_size) ==
    IF a_size = 0 THEN 0
    ELSE IF a_size <= MAX_SIZE_01 THEN 1
    ELSE IF a_size <= MAX_SIZE_02 THEN 2
    ELSE IF a_size <= MAX_SIZE_03 THEN 3
    ELSE IF a_size <= MAX_SIZE_04 THEN 4
    ELSE IF a_size <= MAX_SIZE_05 THEN 5
    ELSE IF a_size <= MAX_SIZE_06 THEN 6
    ELSE IF a_size <= MAX_SIZE_07 THEN 7
    ELSE IF a_size <= MAX_SIZE_08 THEN 8
    ELSE IF a_size <= MAX_SIZE_09 THEN 9
    ELSE IF a_size <= MAX_SIZE_10 THEN 10
    ELSE IF a_size <= MAX_SIZE_11 THEN 11
    ELSE IF a_size <= MAX_SIZE_12 THEN 12
    ELSE 13

get_max_size(list_index) ==
    IF list_index = 1 THEN MAX_SIZE_01
    ELSE IF list_index = 2 THEN MAX_SIZE_02
    ELSE IF list_index = 3 THEN MAX_SIZE_03
    ELSE IF list_index = 4 THEN MAX_SIZE_04
    ELSE IF list_index = 5 THEN MAX_SIZE_05
    ELSE IF list_index = 6 THEN MAX_SIZE_06
    ELSE IF list_index = 7 THEN MAX_SIZE_07
    ELSE IF list_index = 8 THEN MAX_SIZE_08
    ELSE IF list_index = 9 THEN MAX_SIZE_09
    ELSE IF list_index = 10 THEN MAX_SIZE_10
    ELSE IF list_index = 11 THEN MAX_SIZE_11
    ELSE IF list_index = 12 THEN MAX_SIZE_12
    ELSE 0

\* a plausible slip: the directory slot is not repointed when the list
\* already has a head
insert_free_block_stale_root(h, bp) ==
    LET list_index == get_list_index(GET_SIZE(h, HDRP(bp)))
        \* the statements of the two branches, each on the heap g it finds
        E1(g) == SET_LISTP(g, list_index, bp)
        E2(g) == SET_NEXT_FREE_BLKP(g, bp, NULL)
        E3(g) == SET_PREV_FREE_BLKP(g, bp, NULL)
        N1(g) == SET_PREV_FREE_BLKP(g, bp, NULL)
        N2(g) == SET_NEXT_FREE_BLKP(g, bp, GET_LISTP(g, list_index))
        N3(g) == SET_PREV_FREE_BLKP(g, GET_LISTP(g, list_index), bp)
    IN  IF GET_LISTP(h, list_index) = NULL
        THEN E3(E2(E1(h)))
        ELSE N3(N2(N1(h)))

\* Insert bp at the head of the list of its size
insert_free_block(h, bp) ==
    LET list_index == get_list_index(GET_SIZE(h, HDRP(bp)))
        \* the statements of the two branches, each on the heap g it finds
        E1(g) == SET_LISTP(g, list_index, bp)
        E2(g) == SET_NEXT_FREE_BLKP(g, bp, NULL)
        E3(g) == SET_PREV_FREE_BLKP(g, bp, NULL)
        N1(g) == SET_PREV_FREE_BLKP(g, bp, NULL)
        N2(g) == SET_NEXT_FREE_BLKP(g, bp, GET_LISTP(g, list_index))
        N3(g) == SET_PREV_FREE_BLKP(g, GET_LISTP(g, list_index), bp)
        N4(g) == SET_LISTP(g, list_index, bp)
    IN  IF GET_LISTP(h, list_index) = NULL
        THEN E3(E2(E1(h)))
        ELSE N4(N3(N2(N1(h))))

\* a plausible slip: the back-link of the following node is not repaired
remove_free_block_no_back(h, bp) ==
    LET list_index == get_list_index(GET_SIZE(h, HDRP(bp)))
        R1(g) == IF PREV_FREE_BLKP(g, bp) = NULL
                 THEN SET_LISTP(g, list_index, NEXT_FREE_BLKP(g, bp))
                 ELSE SET_NEXT_FREE_BLKP(g, PREV_FREE_BLKP(g, bp), NEXT_FREE_BLKP(g, bp))
    IN  R1(h)

\* Unlink bp from the list of its size
remove_free_block(h, bp) ==
    LET list_index == get_list_index(GET_SIZE(h, HDRP(bp)))
        R1(g) == IF PREV_FREE_BLKP(g, bp) = NULL
                 THEN SET_LISTP(g, list_index, NEXT_FREE_BLKP(g, bp))
                 ELSE SET_NEXT_FREE_BLKP(g, PREV_FREE_BLKP(g, bp), NEXT_FREE_BLKP(g, bp))
        R2(g) == IF NEXT_FREE_BLKP(g, bp) # NULL
                 THEN SET_PREV_FREE_BLKP(g, NEXT_FREE_BLKP(g, bp), PREV_FREE_BLKP(g, bp))
                 ELSE g
    IN  R2(R1(h))

\* a plausible slip: the next block is never looked at, only the previous
\* block is merged
coalesce_prev_only(h, bp) ==
    LET prev_alloc == GET_ALLOC(h, FTRP(h, PREV_BLKP(h, bp)))
        size == GET_SIZE(h, HDRP(bp))
        size_prev == size + GET_SIZE(h, HDRP(PREV_BLKP(h, bp)))
        Insert(g, p) == [h |-> insert_free_block(g, p), ret |-> p]
        P1(g) == remove_free_block(g, PREV_BLKP(g, bp))
        P2(g) == PUTW(g, FTRP(g, bp), PACK(size_prev, 0))
        P3(g) == PUTW(g, HDRP(PREV_BLKP(g, bp)), PACK(size_prev, 0))
        P4(g) == Insert(g, PREV_BLKP(g, bp))
    IN  IF prev_alloc = 1
        THEN Insert(h, bp)
        ELSE P4(P3(P2(P1(h))))

\* Merge the free block bp with its free physical neighbours and insert it
coalesce(h, bp) ==
    LET prev_alloc == GET_ALLOC(h, FTRP(h, PREV_BLKP(h, bp)))
        next_alloc == GET_ALLOC(h, HDRP(NEXT_BLKP(h, bp)))
        size == GET_SIZE(h, HDRP(bp))
        \* the last two statements: insert the block p and return it
        Insert(g, p) == [h |-> insert_free_block(g, p), ret |-> p]
        \* case 2, the next block is free
        size_next == size + GET_SIZE(h, HDRP(NEXT_BLKP(h, bp)))
        N1(g) == remove_free_block(g, NEXT_BLKP(g, bp))
        N2(g) == PUTW(g, HDRP(bp), PACK(size_next, 0))
        N3(g) == PUTW(g, FTRP(g, bp), PACK(size_next, 0))
        \* case 3, the previous block is free
        size_prev == size + GET_SIZE(h, HDRP(PREV_BLKP(h, bp)))
        P1(g) == remove_free_block(g, PREV_BLKP(g, bp))
        P2(g) == PUTW(g, FTRP(g, bp), PACK(size_prev, 0))
        P3(g) == PUTW(g, HDRP(PREV_BLKP(g, bp)), PACK(size_prev, 0))
        P4(g) == Insert(g, PREV_BLKP(g, bp))
        \* case 4, both are free
        size_both == size + GET_SIZE(h, HDRP(PREV_BLKP(h, bp)))
                          + GET_SIZE(h, FTRP(h, NEXT_BLKP(h, bp)))
        B1(g) == remove_free_block(g, PREV_BLKP(g, bp))
        B2(g) == remove_free_block(g, NEXT_BLKP(g, bp))
        B3(g) == PUTW(g, HDRP(PREV_BLKP(g, bp)), PACK(size_both, 0))
        B4(g) == PUTW(g, FTRP(g, NEXT_BLKP(g, bp)), PACK(size_both, 0))
        B5(g) == Insert(g, PREV_BLKP(g, bp))
    IN  IF prev_alloc = 1 /\ next_alloc = 1
        THEN Insert(h, bp)
        ELSE IF prev_alloc = 1 /\ next_alloc = 0
        THEN Insert(N3(N2(N1(h))), bp)
        ELSE IF prev_alloc = 0 /\ next_alloc = 1
        THEN P4(P3(P2(P1(h))))
        ELSE B5(B4(B3(B2(B1(h)))))

\* a plausible slip: the new epilogue header is not written
extend_heap_no_epilogue(h, words) ==
    LET size0 == IF words % 2 = 1 THEN (words + 1) * WSIZE ELSE words * WSIZE
        size == IF size0 < MINIMUM_BLK_SIZE THEN MINIMUM_BLK_SIZE ELSE size0
        s == mem_sbrk(h, size)
        bp == s.ret
        X1(g) == PUTW(g, HDRP(bp), PACK(size, 0))
        X2(g) == PUTW(g, FTRP(g, bp), PACK(size, 0))
    IN  IF s.ret = -1
        THEN [h |-> s.h, ret |-> NULL]
        ELSE coalesce(X2(X1(s.h)), bp)

\* a plausible slip: the header of the new block is stored over the old
\* epilogue before the result of mem_sbrk is looked at
extend_heap_header_first(h, words) ==
    LET size0 == IF words % 2 = 1 THEN (words + 1) * WSIZE ELSE words * WSIZE
        size == IF size0 < MINIMUM_BLK_SIZE THEN MINIMUM_BLK_SIZE ELSE size0
        s == mem_sbrk(h, size)
        bp == s.ret
        X0(g) == PUTW(g, mem_heap_lo + g.brk - WSIZE, PACK(size, 0))
        X1(g) == PUTW(g, HDRP(bp), PACK(size, 0))
        X2(g) == PUTW(g, FTRP(g, bp), PACK(size, 0))
        X3(g) == PUTW(g, HDRP(NEXT_BLKP(g, bp)), PACK(0, 1))
    IN  IF s.ret = -1
        THEN [h |-> X0(h), ret |-> NULL]
        ELSE coalesce(X3(X2(X1(s.h))), bp)

\* a plausible slip: the new block is listed as it is, without merging it
\* with a free block in front of it
extend_heap_no_coalesce(h, words) ==
    LET size0 == IF words % 2 = 1 THEN (words + 1) * WSIZE ELSE words * WSIZE
        size == IF size0 < MINIMUM_BLK_SIZE THEN MINIMUM_BLK_SIZE ELSE size0
        s == mem_sbrk(h, size)
        bp == s.ret
        X1(g) == PUTW(g, HDRP(bp), PACK(size, 0))
        X2(g) == PUTW(g, FTRP(g, bp), PACK(size, 0))
        X3(g) == PUTW(g, HDRP(NEXT_BLKP(g, bp)), PACK(0, 1))
    IN  IF s.ret = -1
        THEN [h |-> s.h, ret |-> NULL]
        ELSE [h |-> insert_free_block(X3(X2(X1(s.h))), bp), ret |-> bp]

\* Grow the heap by words*4 bytes (rounded to an even word count, at least 24)
extend_heap(h, words) ==
    LET size0 == IF words % 2 = 1 THEN (words + 1) * WSIZE ELSE words * WSIZE
        size == IF size0 < MINIMUM_BLK_SIZE THEN MINIMUM_BLK_SIZE ELSE size0
        s == mem_sbrk(h, size)
        bp == s.ret
        X1(g) == PUTW(g, HDRP(bp), PACK(size, 0))
        X2(g) == PUTW(g, FTRP(g, bp), PACK(size, 0))
        X3(g) == PUTW(g, HDRP(NEXT_BLKP(g, bp)), PACK(0, 1))
    IN  IF s.ret = -1
        THEN [h |-> s.h, ret |-> NULL]
        ELSE coalesce(X3(X2(X1(s.h))), bp)

\* the for loop of find_fit over one list, from block bp on
RECURSIVE find_fit_list(_, _, _)
find_fit_list(h, bp, a_size) ==
    IF bp # NULL /\ GET_SIZE(h, HDRP(bp)) > 0
    THEN IF GET_ALLOC(h, HDRP(bp)) = 0 /\ a_size <= GET_SIZE(h, HDRP(bp))
         THEN bp
         ELSE find_fit_list(h, NEXT_FREE_BLKP(h, bp), a_size)
    ELSE NULL

\* the while loop of find_fit over the lists list_index..LISTS
RECURSIVE find_fit_from(_, _, _)
find_fit_from(h, list_index, a_size) ==
    IF list_index <= LISTS
    THEN LET bp == find_fit_list(h, GET_LISTP(h, list_index), a_size)
         IN  IF bp # NULL THEN bp ELSE find_fit_from(h, list_index + 1, a_size)
    ELSE NULL

\* a plausible slip: only the class of a_size is searched, not the higher ones
find_fit_own_class(h, a_size) ==
    LET bp == GET_LISTP(h, get_list_index(a_size))
    IN  IF bp # NULL /\ a_size <= GET_SIZE(h, HDRP(bp)) THEN bp ELSE NULL

find_fit(h, a_size) == find_fit_from(h, get_list_index(a_size), a_size)

\* a plausible slip: the block is never split
place_never_splits(h, bp, a_size) ==
    LET csize == GET_SIZE(h, HDRP(bp))
        W1(g) == PUTW(g, HDRP(bp), PACK(csize, 1))
        W2(g) == PUTW(g, FTRP(g, bp), PACK(csize, 1))
    IN  W2(W1(remove_free_block(h, bp)))

\* a plausible slip: the footer of the placed block is not rewritten
place_no_footer(h, bp, a_size) ==
    LET csize == GET_SIZE(h, HDRP(bp))
        S1(g) == PUTW(g, HDRP(bp), PACK(a_size, 1))
        T1(g, bp2) == PUTW(g, HDRP(bp2), PACK(csize - a_size, 0))
        T2(g, bp2) == PUTW(g, FTRP(g, bp2), PACK(csize - a_size, 0))
        T3(g, bp2) == coalesce(T2(T1(g, bp2), bp2), bp2).h
        S3(g) == T3(g, NEXT_BLKP(g, bp))
        W1(g) == PUTW(g, HDRP(bp), PACK(csize, 1))
    IN  IF (csize - a_size) >= MINIMUM_BLK_SIZE
        THEN S3(S1(remove_free_block(h, bp)))
        ELSE W1(remove_free_block(h, bp))

\* Mark bp allocated, splitting off the remainder when it is a block
place(h, bp, a_size) ==
    LET csize == GET_SIZE(h, HDRP(bp))
        \* split: the block, then the remainder bp2 = NEXT_BLKP(bp)
        S1(g) == PUTW(g, HDRP(bp), PACK(a_size, 1))
        S2(g) == PUTW(g, FTRP(g, bp), PACK(a_size, 1))
        T1(g, bp2) == PUTW(g, HDRP(bp2), PACK(csize - a_size, 0))
        T2(g, bp2) == PUTW(g, FTRP(g, bp2), PACK(csize - a_size, 0))
        T3(g, bp2) == coalesce(T2(T1(g, bp2), bp2), bp2).h
        S3(g) == T3(g, NEXT_BLKP(g, bp))
        \* no split
        W1(g) == PUTW(g, HDRP(bp), PACK(csize, 1))
        W2(g) == PUTW(g, FTRP(g, bp), PACK(csize, 1))
    IN  IF (csize - a_size) >= MINIMUM_BLK_SIZE
        THEN S3(S2(S1(remove_free_block(h, bp))))
        ELSE W2(W1(remove_free_block(h, bp)))

(***************************************************************************)
(* Public operations of mm.c                                               *)
(***************************************************************************)
\* mm_init: both results of mem_sbrk are compared with NULL, the result of
\* extend_heap with NULL; the stores go through the globals as they are
mm_init(h) ==
    LET Origin(s) == [s.h EXCEPT !.origin = s.ret]
        HeapListp(s) == [s.h EXCEPT !.heap_listp = s.ret]
        I1(g) == PUTW(g, g.heap_listp, 0)
        I2(g) == PUTW(g, g.heap_listp + (1 * WSIZE), PACK(DSIZE, 1))
        I3(g) == PUTW(g, g.heap_listp + (2 * WSIZE), PACK(DSIZE, 1))
        I4(g) == PUTW(g, g.heap_listp + (3 * WSIZE), PACK(0, 1))
        RECURSIVE roots(_, _)
        roots(g, i) == IF i <= LISTS THEN roots(SET_LISTP(g, i, NULL), i + 1) ELSE g
        I5(g) == [g EXCEPT !.heap_listp = @ + 2 * WSIZE]
        Extended(e) == IF e.ret = NULL
                       THEN [h |-> e.h, ret |-> 0 - 1]
                       ELSE [h |-> e.h, ret |-> 0]
        Second(g) == IF g.heap_listp = NULL
                     THEN [h |-> g, ret |-> 0 - 1]
                     ELSE Extended(extend_heap(I5(roots(I4(I3(I2(I1(g)))), 1)),
                                               CHUNKSIZE \div WSIZE))
        First(g) == IF g.origin = NULL
                    THEN [h |-> g, ret |-> 0 - 1]
                    ELSE Second(HeapListp(mem_sbrk(g, 4 * WSIZE)))
    IN  First(Origin(mem_sbrk(h, LISTS * DSIZE)))

\* the adjusted block size computed by malloc
malloc_a_size(size) ==
    IF size <= MINIMUM_PAYLOAD_SIZE
    THEN MINIMUM_BLK_SIZE
    ELSE DSIZE * (((size + DSIZE + (DSIZE - 1)) % SizeMod) \div DSIZE)

\* a plausible slip: a block found by find_fit is returned without place
malloc_no_place(h, size) ==
    LET a_size == malloc_a_size(size)
        bp == find_fit(h, a_size)
        extend_size == MAX(a_size, CHUNKSIZE)
        Extended(e) == IF e.ret = NULL
                       THEN [h |-> e.h, ret |-> NULL]
                       ELSE [h |-> place(e.h, e.ret, a_size), ret |-> e.ret]
    IN  IF size = 0
        THEN [h |-> h, ret |-> NULL]
        ELSE IF bp # NULL
        THEN [h |-> h, ret |-> bp]
        ELSE Extended(extend_heap(h, extend_size \div WSIZE))

malloc(h, size) ==
    LET a_size == malloc_a_size(size)
        bp == find_fit(h, a_size)
        extend_size == MAX(a_size, CHUNKSIZE)
        \* after extend_heap returned e
        Extended(e) == IF e.ret = NULL
                       THEN [h |-> e.h, ret |-> NULL]
                       ELSE [h |-> place(e.h, e.ret, a_size), ret |-> e.ret]
    IN  IF size = 0
        THEN [h |-> h, ret |-> NULL]
        ELSE IF bp # NULL
        THEN [h |-> place(h, bp, a_size), ret |-> bp]
        ELSE Extended(extend_heap(h, extend_size \div WSIZE))

\* a plausible slip: the freed block is listed as it is, without merging it
\* with its free neighbours
free_no_coalesce(h, ptr) ==
    LET size == GET_SIZE(h, HDRP(ptr))
        F1(g) == PUTW(g, HDRP(ptr), PACK(size, 0))
        F2(g) == PUTW(g, FTRP(g, ptr), PACK(size, 0))
    IN  IF ptr = NULL
        THEN h
        ELSE insert_free_block(F2(F1(h)), ptr)

free(h, ptr) ==
    LET size == GET_SIZE(h, HDRP(ptr))
        F1(g) == PUTW(g, HDRP(ptr), PACK(size, 0))
        F2(g) == PUTW(g, FTRP(g, ptr), PACK(size, 0))
    IN  IF ptr = NULL
        THEN h
        ELSE coalesce(F2(F1(h)), ptr).h

\* memcpy(dst, src, n) for n a multiple of the word size
memcpy(h, dst, src, n) ==
    [h EXCEPT !.m = [i \in DOMAIN h.m |->
                        IF i >= Idx(dst) /\ i < Idx(dst) + n \div WSIZE
                        THEN h.m[Idx(src) + (i - Idx(dst))]
                        ELSE h.m[i]],
              !.w = @ \cup {dst + WSIZE * k : k \in 0..(n \div WSIZE - 1)}]

\* the new block size computed by realloc
realloc_new_size(size) ==
    IF size <= MINIMUM_PAYLOAD_SIZE
    THEN MINIMUM_BLK_SIZE
    ELSE (ALIGN(size) + HEADER_SIZE) % SizeMod

\* a plausible slip: the split-off remainder is inserted without coalescing
realloc_shrink_no_coalesce(h, old_ptr, old_size, new_size) ==
    LET S1(g) == PUTW(g, HDRP(old_ptr), PACK(new_size, 1))
        S2(g) == PUTW(g, FTRP(g, old_ptr), PACK(new_size, 1))
        T1(g, bp) == PUTW(g, HDRP(bp), PACK(old_size - new_size, 0))
        T2(g, bp) == PUTW(g, FTRP(g, bp), PACK(old_size - new_size, 0))
        T3(g, bp) == insert_free_block(T2(T1(g, bp), bp), bp)
        S3(g) == T3(g, NEXT_BLKP(g, old_ptr))
    IN  IF (old_size - new_size) >= MINIMUM_BLK_SIZE
        THEN [h |-> S3(S2(S1(h))), ret |-> old_ptr]
        ELSE [h |-> h, ret |-> old_ptr]

\* realloc, new_size < old_size: split off the rest when it is a block
realloc_shrink(h, old_ptr, old_size, new_size) ==
    LET S1(g) == PUTW(g, HDRP(old_ptr), PACK(new_size, 1))
        S2(g) == PUTW(g, FTRP(g, old_ptr), PACK(new_size, 1))
        T1(g, bp) == PUTW(g, HDRP(bp), PACK(old_size - new_size, 0))
        T2(g, bp) == PUTW(g, FTRP(g, bp), PACK(old_size - new_size, 0))
        T3(g, bp) == coalesce(T2(T1(g, bp), bp), bp).h
        S3(g) == T3(g, NEXT_BLKP(g, old_ptr))
    IN  IF (old_size - new_size) >= MINIMUM_BLK_SIZE
        THEN [h |-> S3(S2(S1(h))), ret |-> old_ptr]
        ELSE [h |-> h, ret |-> old_ptr]

\* a plausible slip: the absorbed next block is left in its class list
realloc_extend_no_remove(h, old_ptr, old_size, new_size, next_size) ==
    LET extend_size == new_size - old_size
        S1(g) == PUTW(g, HDRP(old_ptr), PACK(new_size, 1))
        S2(g) == PUTW(g, FTRP(g, old_ptr), PACK(new_size, 1))
        T1(g, bp) == PUTW(g, HDRP(bp), PACK(next_size - extend_size, 0))
        T2(g, bp) == PUTW(g, FTRP(g, bp), PACK(next_size - extend_size, 0))
        T3(g, bp) == coalesce(T2(T1(g, bp), bp), bp).h
        S3(g) == T3(g, NEXT_BLKP(g, old_ptr))
        W1(g) == PUTW(g, HDRP(old_ptr), PACK(old_size + next_size, 1))
        W2(g) == PUTW(g, FTRP(g, old_ptr), PACK(old_size + next_size, 1))
    IN  IF (next_size - extend_size) >= MINIMUM_BLK_SIZE
        THEN [h |-> S3(S2(S1(h))), ret |-> old_ptr]
        ELSE [h |-> W2(W1(h)), ret |-> old_ptr]

\* realloc, new_size > old_size and the next block is free and large enough
realloc_extend(h, old_ptr, old_size, new_size, next_size) ==
    LET extend_size == new_size - old_size
        R0(g) == remove_free_block(g, NEXT_BLKP(g, old_ptr))
        \* split the next block: the grown block, then the remainder bp
        S1(g) == PUTW(g, HDRP(old_ptr), PACK(new_size, 1))
        S2(g) == PUTW(g, FTRP(g, old_ptr), PACK(new_size, 1))
        T1(g, bp) == PUTW(g, HDRP(bp), PACK(next_size - extend_size, 0))
        T2(g, bp) == PUTW(g, FTRP(g, bp), PACK(next_size - extend_size, 0))
        T3(g, bp) == coalesce(T2(T1(g, bp), bp), bp).h
        S3(g) == T3(g, NEXT_BLKP(g, old_ptr))
        \* absorb the whole next block
        W1(g) == PUTW(g, HDRP(old_ptr), PACK(old_size + next_size, 1))
        W2(g) == PUTW(g, FTRP(g, old_ptr), PACK(old_size + next_size, 1))
    IN  IF (next_size - extend_size) >= MINIMUM_BLK_SIZE
        THEN [h |-> S3(S2(S1(R0(h)))), ret |-> old_ptr]
        ELSE [h |-> W2(W1(R0(h))), ret |-> old_ptr]

\* a plausible slip: the old block is freed before its payload is copied
realloc_move_free_first(h, old_ptr, size, payload_size) ==
    LET Moved(r) == IF r.ret = NULL
                    THEN [h |-> r.h, ret |-> NULL]
                    ELSE [h |-> memcpy(free(r.h, old_ptr), r.ret, old_ptr, payload_size),
                          ret |-> r.ret]
    IN  Moved(malloc(h, size))

\* a plausible slip: the old block is freed although malloc failed
realloc_move_free_on_failure(h, old_ptr, size, payload_size) ==
    LET Moved(r) == IF r.ret = NULL
                    THEN [h |-> free(r.h, old_ptr), ret |-> NULL]
                    ELSE [h |-> free(memcpy(r.h, r.ret, old_ptr, payload_size), old_ptr),
                          ret |-> r.ret]
    IN  Moved(malloc(h, size))

\* realloc, the block cannot grow in place: malloc, copy, free
realloc_move(h, old_ptr, size, payload_size) ==
    LET Moved(r) == IF r.ret = NULL
                    THEN [h |-> r.h, ret |-> NULL]
                    ELSE [h |-> free(memcpy(r.h, r.ret, old_ptr, payload_size), old_ptr),
                          ret |-> r.ret]
    IN  Moved(malloc(h, size))

\* a plausible slip: a block that must grow is always moved
realloc_never_extends(h, old_ptr, size) ==
    LET old_size == GET_SIZE(h, HDRP(old_ptr))
        new_size == realloc_new_size(size)
        payload_size == old_size - HEADER_SIZE
    IN  IF size = 0
        THEN [h |-> free(h, old_ptr), ret |-> NULL]
        ELSE IF old_ptr = NULL
        THEN malloc(h, size)
        ELSE IF new_size = old_size
        THEN [h |-> h, ret |-> old_ptr]
        ELSE IF new_size < old_size
        THEN realloc_shrink(h, old_ptr, old_size, new_size)
        ELSE realloc_move(h, old_ptr, size, payload_size)

realloc(h, old_ptr, size) ==
    LET old_size == GET_SIZE(h, HDRP(old_ptr))
        new_size == realloc_new_size(size)
        next_alloc == GET_ALLOC(h, HDRP(NEXT_BLKP(h, old_ptr)))
        next_size == GET_SIZE(h, HDRP(NEXT_BLKP(h, old_ptr)))
        extend_size == new_size - old_size
        payload_size == old_size - HEADER_SIZE
    IN  IF size = 0
        THEN [h |-> free(h, old_ptr), ret |-> NULL]
        ELSE IF old_ptr = NULL
        THEN malloc(h, size)
        ELSE IF new_size = old_size
        THEN [h |-> h, ret |-> old_ptr]
        ELSE IF new_size < old_size
        THEN realloc_shrink(h, old_ptr, old_size, new_size)
        ELSE IF next_alloc = 0 /\ next_size > extend_size
        THEN realloc_extend(h, old_ptr, old_size, new_size, next_size)
        ELSE realloc_move(h, old_ptr, size, payload_size)

\* memset(bp, 0, n) for n a multiple of the word size
memset0(h, bp, n) ==
    [h EXCEPT !.m = [i \in DOMAIN h.m |->
                        IF i >= Idx(bp) /\ i < Idx(bp) + n \div WSIZE THEN 0 ELSE h.m[i]],
              !.w = @ \cup {bp + WSIZE * k : k \in 0..(n \div WSIZE - 1)}]

\* calloc: malloc, then memset through the result, null or not
calloc(h, nmemb, size) ==
    LET total_size == nmemb * size
        Set(r) == [h |-> memset0(r.h, r.ret, total_size), ret |-> r.ret]
    IN  Set(malloc(h, total_size))

(***************************************************************************)
(* The allocator as a state machine: a client making calls                 *)
(***************************************************************************)
\* the heap as a call finds it
H0 == [m |-> mem, brk |-> brk, w |-> {}, max |-> mem_max,
       origin |-> origin, heap_listp |-> heap_listp]

\* the heap before mm_init, with a substrate that grants max bytes
Boot(max) == [m |-> <<>>, brk |-> 0, w |-> {}, max |-> max, origin |-> 0, heap_listp |-> 0]

\* the data the client stores in the size bytes it asked for: every word
\* gets a value the allocator never writes (the negated address of the word)
UserFill(m, p, size) ==
    [i \in DOMAIN m |->
        IF p # NULL /\ i >= Idx(p) /\ i < Idx(p) + (size + WSIZE - 1) \div WSIZE
        THEN 0 - (mem_heap_lo + WSIZE * i)
        ELSE m[i]]

\* the client's record of its blocks: p is handed out by a call that left
\* the heap h, or p is given back
Give(l, p, h) ==
    IF p = NULL THEN l
    ELSE [q \in DOMAIN l \cup {p} |-> IF q = p THEN GET_SIZE(h, HDRP(p)) ELSE l[q]]
Drop(l, p) == [q \in DOMAIN l \ {p} |-> l[q]]

\* argument pairs of calloc
CallocArgs == {<<5, 8>>, <<0, 8>>}

\* argument pairs of realloc: a live block with a new size or 0, or a null
\* pointer
ReallocArgs == ((DOMAIN live) \X (Sizes \cup {0})) \cup {<<NULL, 16>>}

\* the allocator after mm_init on a substrate that grants max bytes
MmInitOn(max) ==
    /\ mem_max = max
    /\ LET Return(r) == /\ mem = r.h.m
                        /\ brk = r.h.brk
                        /\ written = r.h.w
                        /\ origin = r.h.origin
                        /\ heap_listp = r.h.heap_listp
       IN  Return(mm_init(Boot(max)))
    /\ live = <<>>
    /\ lastOp = [op |-> "mm_init", ptr |-> NULL, osize |-> 0, size |-> 0, ret |-> NULL]
    /\ nops = 0
    /\ crashed = FALSE

MmInit == MmInitOn(MaxHeap)

\* the sizes a substrate may grant before it refuses: multiples of the word
\* size up to MaxHeap
HeapLimits == {WSIZE * k : k \in 0..(MaxHeap \div WSIZE)}

\* the allocator before mm_init, on a substrate of any of these sizes
MmBoot ==
    /\ mem_max \in HeapLimits
    /\ mem = <<>>
    /\ brk = 0
    /\ origin = 0
    /\ heap_listp = 0
    /\ live = <<>>
    /\ written = {}
    /\ lastOp = [op |-> "none", ptr |-> NULL, osize |-> 0, size |-> 0, ret |-> NULL]
    /\ nops = 0
    /\ crashed = FALSE

\* the call of mm_init.  A store outside the heap is undefined: the process
\* dies on it, or the store lands elsewhere and mm_init carries on.
MmInitCall ==
    /\ heap_listp = 0 /\ lastOp.op = "none" /\ ~crashed
    /\ LET Return(r) ==
               /\ mem' = r.h.m
               /\ brk' = r.h.brk
               /\ written' = r.h.w
               /\ origin' = r.h.origin
               /\ heap_listp' = r.h.heap_listp
               /\ lastOp' = [op |-> "mm_init", ptr |-> NULL, osize |-> 0, size |-> 0,
                            ret |-> r.ret]
               /\ crashed' \in IF \A q \in r.h.w : Mapped(r.h, q) THEN {FALSE} ELSE BOOLEAN
       IN  Return(mm_init(Boot(mem_max)))
    /\ UNCHANGED <<live, nops, mem_max>>
    /\ UNCHANGED <<cachevars, proxyvars>>

\* a call of malloc by a client that then stores data in the first
\* nstore bytes of the block
MallocStore(size, nstore) ==
    /\ ~crashed
    /\ LET Return(r) ==
               /\ mem' = UserFill(r.h.m, r.ret, nstore)
               /\ brk' = r.h.brk
               /\ written' = r.h.w
               /\ live' = Give(live, r.ret, r.h)
               /\ lastOp' = [op |-> "malloc", ptr |-> NULL, osize |-> 0, size |-> size,
                            ret |-> r.ret]
       IN  Return(malloc(H0, size))
    /\ nops' = nops + 1
    /\ UNCHANGED <<origin, heap_listp, crashed, mem_max>>
    /\ UNCHANGED <<cachevars, proxyvars>>

MallocCall(size) == MallocStore(size, size)

Malloc(size) == nops < MaxOps /\ MallocCall(size)

\* a request near the maximum of size_t; the client stores nothing
MallocHuge(size) == nops < MaxOps /\ MallocStore(size, 0)

FreeCall(ptr) ==
    /\ ~crashed
    /\ LET Return(h) ==
               /\ mem' = h.m
               /\ brk' = h.brk
               /\ written' = h.w
               /\ live' = Drop(live, ptr)
               /\ lastOp' = [op |-> "free", ptr |-> ptr, osize |-> live[ptr], size |-> 0,
                            ret |-> NULL]
       IN  Return(free(H0, ptr))
    /\ nops' = nops + 1
    /\ UNCHANGED <<origin, heap_listp, crashed, mem_max>>
    /\ UNCHANGED <<cachevars, proxyvars>>

Free(ptr) == nops < MaxOps /\ FreeCall(ptr)

Realloc(old_ptr, size) ==
    /\ nops < MaxOps /\ ~crashed
    /\ LET Return(r) ==
               /\ mem' = r.h.m
               /\ brk' = r.h.brk
               /\ written' = r.h.w
               /\ live' = IF size = 0 THEN Drop(live, old_ptr)
                          ELSE IF r.ret = NULL THEN live
                          ELSE Give(Drop(live, old_ptr), r.ret, r.h)
               /\ lastOp' = [op |-> "realloc", ptr |-> old_ptr,
                            osize |-> IF old_ptr = NULL THEN 0 ELSE live[old_ptr],
                            size |-> size, ret |-> r.ret]
       IN  Return(realloc(H0, old_ptr, size))
    /\ nops' = nops + 1
    /\ UNCHANGED <<origin, heap_listp, crashed, mem_max>>
    /\ UNCHANGED <<cachevars, proxyvars>>

Calloc(nmemb, size) ==
    /\ nops < MaxOps /\ ~crashed
    /\ LET Return(r) ==
               /\ mem' = r.h.m
               /\ brk' = r.h.brk
               /\ written' = r.h.w
               /\ live' = Give(live, r.ret, r.h)
               /\ lastOp' = [op |-> "calloc", ptr |-> NULL, osize |-> 0,
                            size |-> nmemb * size, ret |-> r.ret]
               /\ crashed' \in IF \A q \in r.h.w : Mapped(r.h, q) THEN {FALSE} ELSE BOOLEAN
       IN  Return(calloc(H0, nmemb, size))
    /\ nops' = nops + 1
    /\ UNCHANGED <<origin, heap_listp, mem_max>>
    /\ UNCHANGED <<cachevars, proxyvars>>

MmNext ==
    \/ \E size \in Sizes : Malloc(size)
    \/ \E ptr \in DOMAIN live : Free(ptr)
    \/ \E a \in ReallocArgs : Realloc(a[1], a[2])
    \/ \E a \in CallocArgs : Calloc(a[1], a[2])

\* a client that draws the sizes of the in-place grow scenario
GrowSizes == {32, 64}
GrowCallocArgs == {<<9, 8>>, <<0, 8>>}
GrowReallocArgs == ((DOMAIN live) \X (GrowSizes \cup {0})) \cup {<<NULL, 16>>}

GrowNext ==
    \/ \E size \in GrowSizes : Malloc(size)
    \/ \E ptr \in DOMAIN live : Free(ptr)
    \/ \E a \in GrowReallocArgs : Realloc(a[1], a[2])
    \/ \E a \in GrowCallocArgs : Calloc(a[1], a[2])

\* a client that asks for less and for more than one chunk
ExtendSizes == {16, 200}

ExtendNext ==
    \/ \E size \in ExtendSizes : Malloc(size)
    \/ \E ptr \in DOMAIN live : Free(ptr)
    \/ \E a \in (DOMAIN live) \X ExtendSizes : Realloc(a[1], a[2])

\* the request sizes whose adjusted size is computed: the lowest and the
\* highest values of size_t
AdjustInputs == (1..64) \cup ((SizeMod - 64)..(SizeMod - 1))

\* the first statements of malloc and of realloc for a request of size
\* bytes: lastOp.ret takes a_size of malloc, lastOp.osize new_size of realloc
AdjustCall(size) ==
    /\ ~crashed
    /\ lastOp' = [op |-> "adjust", ptr |-> NULL, osize |-> realloc_new_size(size),
                  size |-> size, ret |-> malloc_a_size(size)]
    /\ UNCHANGED <<mem, brk, origin, heap_listp, live, written, nops, crashed, mem_max>>
    /\ UNCHANGED <<cachevars, proxyvars>>

AdjustNext ==
    \/ \E size \in AdjustInputs : AdjustCall(size)
    \/ \E size \in {16} : Malloc(size)
    \/ \E size \in {SizeMod - 1} : MallocHuge(size)

\* a client that allocates up to three blocks and frees them in any order,
\* ScenarioOps calls in all
ScenarioOps == 6
ScenarioSizes == {32, 100}

CoalesceNext ==
    \/ \E size \in ScenarioSizes :
          nops < ScenarioOps /\ Cardinality(DOMAIN live) < 3 /\ MallocCall(size)
    \/ \E ptr \in DOMAIN live : nops < ScenarioOps /\ FreeCall(ptr)

(***************************************************************************)
(* Views of the heap between calls, used to state the properties           *)
(***************************************************************************)
\* the word at address p, or Fresh when p is no word of the heap
Word(p) ==
    IF p >= mem_heap_lo /\ p + WSIZE <= mem_heap_lo + brk /\ p % WSIZE = 0
    THEN mem[Idx(p)]
    ELSE Fresh
SizeAt(p) == Word(p) - (Word(p) % 8)
AllocAt(p) == Word(p) % 2
\* the 8-byte value at p
Link(p) == IF Word(p + WSIZE) = 0 THEN Word(p) ELSE -1

\* the blocks met walking forward by header sizes from bp, until a header of
\* size 0 (or less), at most fuel of them
RECURSIVE WalkFrom(_, _)
WalkFrom(bp, fuel) ==
    IF fuel = 0 \/ SizeAt(HDRP(bp)) <= 0
    THEN <<>>
    ELSE <<bp>> \o WalkFrom(bp + SizeAt(HDRP(bp)), fuel - 1)

\* the payload address the same walk stops at
RECURSIVE WalkEnd(_, _)
WalkEnd(bp, fuel) ==
    IF fuel = 0 \/ SizeAt(HDRP(bp)) <= 0
    THEN bp
    ELSE WalkEnd(bp + SizeAt(HDRP(bp)), fuel - 1)

FirstBlock == heap_listp + DSIZE
Fuel == brk \div DSIZE + 1
Blocks == WalkFrom(FirstBlock, Fuel)
BlockSet == LET bs == Blocks IN {bs[k] : k \in DOMAIN bs}
FreeBlocks == {b \in BlockSet : AllocAt(HDRP(b)) = 0}

\* the nodes met following forward-links from bp, at most fuel of them
RECURSIVE ListFrom(_, _)
ListFrom(bp, fuel) ==
    IF fuel = 0 \/ bp = NULL \/ bp < mem_heap_lo \/ bp >= mem_heap_lo + brk
    THEN <<>>
    ELSE <<bp>> \o ListFrom(Link(bp + DSIZE), fuel - 1)

ClassList(c) == ListFrom(Link(origin + (c - 1) * DSIZE), Fuel)

\* the nodes of all class lists, as pairs <<class, node>>
RECURSIVE ListedFrom(_)
ListedFrom(c) ==
    IF c > LISTS THEN <<>>
    ELSE LET l == ClassList(c)
         IN  [k \in DOMAIN l |-> <<c, l[k]>>] \o ListedFrom(c + 1)
Listed == ListedFrom(1)

\* how many nodes of the class lists are the block b
TimesListed(b) == LET L == Listed IN Cardinality({k \in DOMAIN L : L[k][2] = b})

RECURSIVE SumSizes(_)
SumSizes(bs) == IF bs = <<>> THEN 0 ELSE SizeAt(HDRP(Head(bs))) + SumSizes(Tail(bs))

\* the addresses of the payload words of a block of the given size at p
PayloadWords(p, size) == {p + WSIZE * k : k \in 0..((size - HEADER_SIZE) \div WSIZE - 1)}

C11_ListsWellFormed ==
    \A c \in 1..LISTS :
        LET l == ClassList(c)
        IN  /\ Len(l) < Fuel
            /\ Cardinality({l[k] : k \in DOMAIN l}) = Len(l)
            /\ l # <<>> => /\ Link(l[1]) = NULL
                           /\ Link(l[Len(l)] + DSIZE) = NULL
            /\ \A k \in DOMAIN l :
                  /\ Link(l[k] + DSIZE) # NULL => Link(Link(l[k] + DSIZE)) = l[k]
                  /\ Link(l[k]) # NULL => Link(Link(l[k]) + DSIZE) = l[k]

\* a free has put a second node on a class list that was not empty
C11_Witness ==
    /\ lastOp.op = "free"
    /\ \E c \in 1..LISTS :
          /\ Len(ClassList(c)) >= 2
          /\ ClassList(c)[1] = lastOp.ptr

C13_MallocResult ==
    (/\ lastOp.op = "malloc" \/ (lastOp.op = "realloc" /\ lastOp.ptr = NULL)
     /\ lastOp.size > 0
     /\ lastOp.ret # NULL)
        => LET p == lastOp.ret
           IN  /\ mem_heap_lo % ALIGNMENT = 0
               /\ p % ALIGNMENT = 0
               /\ mem_heap_lo <= p /\ p < mem_heap_lo + brk
               /\ p \in BlockSet
               /\ AllocAt(HDRP(p)) = 1
               /\ AllocAt(p + SizeAt(HDRP(p)) - DSIZE) = 1
               /\ TimesListed(p) = 0

\* after the heap had been extended a malloc returned a block that is not
\* the first of the heap, and a free block is left in a class list
C13_Witness ==
    /\ lastOp.op = "malloc"
    /\ lastOp.ret # NULL
    /\ lastOp.ret \in BlockSet
    /\ lastOp.ret # FirstBlock
    /\ brk > 120 + CHUNKSIZE
    /\ Len(Listed) >= 1

\* C14: a malloc of n > 0 bytes for which find_fit finds no block and the
\* substrate refuses the growth returns null and leaves the heap words, the
\* heap size, the globals and with them the 13 directory slots and every
\* class list as they were before the call.
C14_FailedMallocFrame ==
    [][(/\ lastOp'.op = "malloc"
        /\ lastOp'.size > 0
        /\ find_fit(H0, malloc_a_size(lastOp'.size)) = NULL
        /\ mem_sbrk(H0, MAX(malloc_a_size(lastOp'.size), CHUNKSIZE)).ret = -1)
       => /\ lastOp'.ret = NULL
          /\ mem' = mem
          /\ brk' = brk
          /\ origin' = origin
          /\ heap_listp' = heap_listp
          /\ live' = live
          /\ Listed' = Listed]_mmvars

\* a malloc has returned null while the heap holds live blocks and a free
\* block too small for the request
C14_Witness ==
    /\ lastOp.op = "malloc"
    /\ lastOp.size > 0
    /\ lastOp.ret = NULL
    /\ DOMAIN live # {}
    /\ FreeBlocks # {}
    /\ Len(Listed) >= 1

\* C15: when the substrate refuses one of the three growth requests of
\* mm_init (104 bytes of directory, 16 bytes of sentinels, 168 bytes of first
\* chunk), mm_init returns -1, the process survives, no request follows a
\* refused one, and no store of the call goes to an address outside the heap.
C15_InitReportsFailure ==
    (lastOp.op = "mm_init" /\ mem_max < LISTS * DSIZE + 4 * WSIZE + CHUNKSIZE)
        => /\ lastOp.ret = 0 - 1
           /\ ~crashed
           /\ \A q \in written : q >= mem_heap_lo /\ q + WSIZE <= mem_heap_lo + brk
           /\ mem_max < LISTS * DSIZE => brk = 0
           /\ mem_max < LISTS * DSIZE + 4 * WSIZE => brk <= LISTS * DSIZE

\* C16: a calloc whose malloc fails (growth refused, or a product of zero)
\* returns null, the process survives, and no byte is stored through the
\* null result: every store of the call is inside the heap.
C16_CallocReportsFailure ==
    (lastOp.op = "calloc" /\ lastOp.ret = NULL)
        => /\ ~crashed
           /\ \A q \in written : q >= mem_heap_lo /\ q + WSIZE <= mem_heap_lo + brk

\* C17: a realloc of a live block p of size o to n > 0 bytes, where the
\* adjusted size exceeds o, the next block is allocated or not larger than
\* the growth, and the malloc of n bytes fails, returns null and leaves the
\* heap words (so the header, footer and payload of p), the heap size, the
\* client's blocks and the class lists as they were.
C17_FailedMoveFrame ==
    [][(/\ lastOp'.op = "realloc"
        /\ lastOp'.ptr # NULL
        /\ lastOp'.size > 0
        /\ realloc_new_size(lastOp'.size) > lastOp'.osize
        /\ ~(/\ AllocAt(HDRP(lastOp'.ptr + lastOp'.osize)) = 0
             /\ SizeAt(HDRP(lastOp'.ptr + lastOp'.osize))
                    > realloc_new_size(lastOp'.size) - lastOp'.osize)
        /\ malloc(H0, lastOp'.size).ret = NULL)
       => /\ lastOp'.ret = NULL
          /\ mem' = mem
          /\ brk' = brk
          /\ live' = live
          /\ Listed' = Listed
          /\ mem'[Idx(HDRP(lastOp'.ptr))] = lastOp'.osize + 1]_mmvars

\* a realloc of a block that holds client data has returned null; the block
\* is followed by a free block too small to absorb the growth
C17_Witness ==
    /\ lastOp.op = "realloc"
    /\ lastOp.ptr # NULL
    /\ lastOp.size > 0
    /\ lastOp.ret = NULL
    /\ lastOp.ptr \in DOMAIN live
    /\ Word(lastOp.ptr) < Fresh
    /\ (lastOp.ptr + lastOp.osize) \in FreeBlocks

\* C18: a realloc of a live block p of size o to n > 0 bytes with adjusted
\* size a <= o returns p.  When o - a < 24 (a = o included) the heap words and
\* the heap size are unchanged.  When o - a >= 24 the block at p is allocated
\* with size a in header and footer, and at p + a starts a free block whose
\* header and footer give the size o - a plus the size of the block that
\* followed p if that block was free; it is a node of exactly one class list.
C18_ShrinkInPlace ==
    [][\A p \in DOMAIN live : \A n \in {lastOp'.size} : \A o \in {live[p]} :
       \A nf \in {IF AllocAt(HDRP(p + o)) = 0 THEN SizeAt(HDRP(p + o)) ELSE 0} :
          LET a == realloc_new_size(n)
          IN  (lastOp'.op = "realloc" /\ lastOp'.ptr = p /\ n > 0 /\ a <= o)
                 => /\ lastOp'.ret = p
                    /\ o - a < MINIMUM_BLK_SIZE => (mem' = mem /\ brk' = brk /\ live' = live)
                    /\ o - a >= MINIMUM_BLK_SIZE =>
                          /\ brk' = brk
                          /\ Word(HDRP(p))' = a + 1
                          /\ Word(p + a - DSIZE)' = a + 1
                          /\ Word(HDRP(p + a))' = (o - a) + nf
                          /\ Word(p + o + nf - DSIZE)' = (o - a) + nf
                          /\ TimesListed(p + a)' = 1
                          /\ live' = [live EXCEPT ![p] = a]]_mmvars

\* a realloc has shrunk a block that holds client data and the split-off
\* remainder has merged with the free block behind it
C18_Witness ==
    /\ lastOp.op = "realloc"
    /\ lastOp.ptr # NULL
    /\ lastOp.size > 0
    /\ lastOp.ret = lastOp.ptr
    /\ lastOp.osize - SizeAt(HDRP(lastOp.ptr)) >= MINIMUM_BLK_SIZE
    /\ (lastOp.ptr + SizeAt(HDRP(lastOp.ptr))) \in FreeBlocks
    /\ SizeAt(HDRP(lastOp.ptr + SizeAt(HDRP(lastOp.ptr)))) > lastOp.osize - SizeAt(HDRP(lastOp.ptr))
    /\ Word(lastOp.ptr) < Fresh
    /\ Cardinality(DOMAIN live) >= 2

\* C19: a realloc of a live block p of size o to n bytes with adjusted size
\* a > o, where the block behind p is free with a size ns > k = a - o,
\* returns p without growing the heap, and the block that was behind p is a
\* node of no class list.  When ns - k >= 24 the block at p has size a and at
\* p + a starts a free block of size ns - k that is a node of exactly one
\* class list; otherwise the block at p has size o + ns and no node of a
\* class list lies inside it.  In particular after a = malloc(32),
\* b = malloc(32), free(b) the call realloc(a, 64) returns a.
C19_GrowInPlace ==
    [][/\ \A p \in DOMAIN live : \A n \in {lastOp'.size} : \A o \in {live[p]} :
          \A ns \in {SizeAt(HDRP(p + o))} : \A na \in {AllocAt(HDRP(p + o))} :
             LET a == realloc_new_size(n)
                 k == a - o
             IN  (/\ lastOp'.op = "realloc" /\ lastOp'.ptr = p /\ n > 0
                  /\ a > o /\ na = 0 /\ ns > k)
                    => /\ lastOp'.ret = p
                       /\ brk' = brk
                       /\ TimesListed(p + o)' = 0
                       /\ ns - k >= MINIMUM_BLK_SIZE =>
                             /\ Word(HDRP(p))' = a + 1
                             /\ Word(p + a - DSIZE)' = a + 1
                             /\ Word(HDRP(p + a))' = ns - k
                             /\ Word(p + o + ns - DSIZE)' = ns - k
                             /\ TimesListed(p + a)' = 1
                             /\ live' = [live EXCEPT ![p] = a]
                       /\ ns - k < MINIMUM_BLK_SIZE =>
                             /\ Word(HDRP(p))' = o + ns + 1
                             /\ Word(p + o + ns - DSIZE)' = o + ns + 1
                             /\ Cardinality({i \in DOMAIN Listed :
                                                Listed[i][2] >= p /\ Listed[i][2] < p + o + ns})' = 0
                             /\ live' = [live EXCEPT ![p] = o + ns]
       /\ (/\ nops = 3
           /\ lastOp.op = "free" /\ lastOp.ptr = FirstBlock + 40 /\ lastOp.osize = 40
           /\ DOMAIN live = {FirstBlock} /\ live[FirstBlock] = 40
           /\ lastOp'.op = "realloc" /\ lastOp'.ptr = FirstBlock /\ lastOp'.size = 64)
              => lastOp'.ret = FirstBlock]_mmvars

\* after a = malloc(32), b = malloc(32), free(b), the call realloc(a, 64)
\* has returned a: the block holds the client's data, has size 72 and is
\* followed by the one free block of the heap, of size 96
C19_Witness ==
    /\ nops = 4
    /\ lastOp = [op |-> "realloc", ptr |-> FirstBlock, osize |-> 40, size |-> 64,
                 ret |-> FirstBlock]
    /\ DOMAIN live = {FirstBlock}
    /\ SizeAt(HDRP(FirstBlock)) = 72
    /\ FreeBlocks = {FirstBlock + 72}
    /\ SizeAt(HDRP(FirstBlock + 72)) = 96
    /\ Word(FirstBlock) < Fresh
    /\ brk = 120 + CHUNKSIZE

(***************************************************************************)
(* The cache of src/Proxy/cache.c                                          *)
(*                                                                         *)
(* Worker threads call read_cache and write_cache on one proxy_cache.      *)
(* Cache blocks live at addresses 1..MaxBlocks; 0 is NULL.  A payload is   *)
(* one value (the number of the write call that supplied it) together with *)
(* its length.                                                             *)
(***************************************************************************)
\* init_cache(max_cache_size, input_max_object_size): the proxy passes
\* 1049000 and 102400; the model scales them down
CacheSize == 3
ObjectSize == 2
\* number of addresses a cache block can be allocated at
MaxBlocks == 3
\* number of read_cache / write_cache calls made in a run
MaxCalls == 4

Threads == {"t1", "t2"}
Addrs == 1..MaxBlocks

\* (host, uri) keys: same host, two uris
KeyU == <<"h", "/u">>
KeyV == <<"h", "/v">>
Keys == {KeyU, KeyV}
\* the (key, len) arguments of write_cache; the last one is too long
WriteArgs == {<<KeyU, 1>>, <<KeyV, ObjectSize>>, <<KeyU, ObjectSize + 1>>}
\* the (key, len) arguments of a write_cache call whose handle is null
NullArgs == {<<KeyV, 1>>}

\* the memory the operations act on
S0 == [mc |-> my_cache, blk |-> blocks, al |-> allocated]

\* a block address never written
NoBlock ==
    [payload_size |-> 0, host |-> "", uri |-> "", next_cache_block |-> NULL,
     prev_cache_block |-> NULL, payload |-> 0]

\* semaphores: P waits until the value is positive and decrements it,
\* V increments it
P_ready(sem) == sem > 0
P(sem) == sem - 1
V(sem) == sem + 1

init_cache(max_cache_size, input_max_object_size) ==
    [space |-> max_cache_size,
     max_object_size |-> input_max_object_size,
     root |-> NULL,
     readcnt |-> 0,
     mutex_read |-> 1,
     mutex_write |-> 1]

\* the block create_block builds at the address a that Malloc returned
create_block(s, a, input_host, input_uri, buffer, size) ==
    [s EXCEPT !.al = @ \cup {a},
              !.blk[a] = [payload_size |-> size, host |-> input_host, uri |-> input_uri,
                          next_cache_block |-> NULL, prev_cache_block |-> NULL,
                          payload |-> buffer]]

\* the memory keeps its bytes until the address is allocated again
free_block(s, block_ptr) == [s EXCEPT !.al = @ \ {block_ptr}]

\* a plausible slip: a block put before the root is not made the root
insert_block_keeps_root(s, block_ptr) ==
    LET Chain(g) ==
            IF g.mc.root = NULL
            THEN [g EXCEPT !.mc.root = block_ptr,
                           !.blk[block_ptr].next_cache_block = NULL,
                           !.blk[block_ptr].prev_cache_block = NULL]
            ELSE [g EXCEPT !.blk[block_ptr].prev_cache_block = NULL,
                           !.blk[block_ptr].next_cache_block = g.mc.root,
                           !.blk[g.mc.root].prev_cache_block = block_ptr]
        Space(g) == [g EXCEPT !.mc.space = @ - g.blk[block_ptr].payload_size]
    IN  Space(Chain(s))

insert_block(s, block_ptr) ==
    LET Chain(g) ==
            IF g.mc.root = NULL
            THEN [g EXCEPT !.mc.root = block_ptr,
                           !.blk[block_ptr].next_cache_block = NULL,
                           !.blk[block_ptr].prev_cache_block = NULL]
            ELSE [g EXCEPT !.blk[block_ptr].prev_cache_block = NULL,
                           !.blk[block_ptr].next_cache_block = g.mc.root,
                           !.blk[g.mc.root].prev_cache_block = block_ptr,
                           !.mc.root = block_ptr]
        Space(g) == [g EXCEPT !.mc.space = @ - g.blk[block_ptr].payload_size]
    IN  Space(Chain(s))

remove_block(s, block_ptr) ==
    LET UnlinkPrev(g) ==
            IF g.blk[block_ptr].prev_cache_block = NULL
            THEN [g EXCEPT !.mc.root = g.blk[block_ptr].next_cache_block]
            ELSE [g EXCEPT !.blk[g.blk[block_ptr].prev_cache_block].next_cache_block =
                               g.blk[block_ptr].next_cache_block]
        UnlinkNext(g) ==
            IF g.blk[block_ptr].next_cache_block # NULL
            THEN [g EXCEPT !.blk[g.blk[block_ptr].next_cache_block].prev_cache_block =
                               g.blk[block_ptr].prev_cache_block]
            ELSE g
        Space(g) == [g EXCEPT !.mc.space = @ + g.blk[block_ptr].payload_size]
    IN  Space(UnlinkNext(UnlinkPrev(s)))

\* the value of a walk of the list that never ends (the list has a cycle)
Endless == 0 - 1

\* the for loop of search_block from block_ptr on
RECURSIVE search_from(_, _, _, _, _)
search_from(s, block_ptr, input_host, input_uri, fuel) ==
    IF block_ptr = NULL THEN NULL
    ELSE IF fuel = 0 THEN Endless
    ELSE IF s.blk[block_ptr].host = input_host /\ s.blk[block_ptr].uri = input_uri
    THEN block_ptr
    ELSE search_from(s, s.blk[block_ptr].next_cache_block, input_host, input_uri,
                     fuel - 1)

search_block(s, input_host, input_uri) ==
    search_from(s, s.mc.root, input_host, input_uri, MaxBlocks + 1)

read_cache_block(s, block_ptr) ==
    [read_len |-> s.blk[block_ptr].payload_size, buffer |-> s.blk[block_ptr].payload]

\* the while loop of get_lru from block_ptr on
RECURSIVE last_from(_, _, _)
last_from(s, block_ptr, fuel) ==
    IF s.blk[block_ptr].next_cache_block = NULL THEN block_ptr
    ELSE IF fuel = 0 THEN Endless
    ELSE last_from(s, s.blk[block_ptr].next_cache_block, fuel - 1)

\* a plausible slip: the block at root is taken for the least recent one
get_lru_root(s) == s.mc.root

get_lru(s) ==
    IF s.mc.root = NULL THEN NULL ELSE last_from(s, s.mc.root, MaxBlocks + 1)

\* a plausible slip: the victim is freed and its bytes are credited, but it
\* is left in the list
eviction_no_unlink(s, lru_block) ==
    free_block([s EXCEPT !.mc.space = @ + s.blk[lru_block].payload_size], lru_block)

\* eviction of the block lru_block that get_lru returned
eviction(s, lru_block) == free_block(remove_block(s, lru_block), lru_block)

\* the addresses Malloc may return for a new block: one that was freed, or
\* the lowest one never used
MallocChoices(s) ==
    LET unused == (DOMAIN s.blk) \ s.al
        used == {a \in unused : s.blk[a].host # ""}
        new == unused \ used
    IN  used \cup {a \in new : \A b \in new : a <= b}

(***************************************************************************)
(* The cache as a state machine: read_cache and write_cache step by step   *)
(***************************************************************************)
\* the handle init_cache returned: the address of the proxy_cache
Handle == 1

NoCall ==
    [op |-> "none", cache |-> Handle, host |-> "", uri |-> "", len |-> 0, data |-> 0,
     block_ptr |-> NULL, read_len |-> 0, buffer |-> 0, ret |-> 0, snap |-> {}]

CacheInit ==
    /\ my_cache = init_cache(CacheSize, ObjectSize)
    /\ blocks = [a \in Addrs |-> NoBlock]
    /\ allocated = {}
    /\ pc = [t \in Threads |-> "idle"]
    /\ loc = [t \in Threads |-> NoCall]
    /\ ncalls = 0
    /\ dead = FALSE
    /\ stored = {}
    /\ recency = <<>>
    /\ evLog = <<>>

\* the sequence q without the entries equal to x
Without(q, x) == SelectSeq(q, LAMBDA y : y # x)

\* thread t moves to position p
Goto(t, p) == pc' = [pc EXCEPT ![t] = p]

\* read_cache(cache, key[1], key[2], buffer) is entered: the null test
ReadBegin(t, cache, key) ==
    /\ ~dead /\ pc[t] = "idle"
    /\ IF cache = NULL
       THEN /\ loc' = [loc EXCEPT ![t] = [NoCall EXCEPT !.op = "read", !.cache = cache,
                                                        !.host = key[1], !.uri = key[2],
                                                        !.ret = 0 - 1]]
            /\ UNCHANGED pc
       ELSE /\ loc' = [loc EXCEPT ![t] = [NoCall EXCEPT !.op = "read", !.host = key[1],
                                                        !.uri = key[2],
                                                        !.snap = {r.id : r \in stored}]]
            /\ Goto(t, "r_enter")
    /\ UNCHANGED <<my_cache, blocks, allocated, dead, stored, recency, evLog>>
    /\ UNCHANGED <<mmvars, proxyvars>>

\* read_cache is called on the cache
ReadCall(t, key) ==
    /\ ncalls < MaxCalls
    /\ ncalls' = ncalls + 1
    /\ ReadBegin(t, Handle, key)

\* P(mutex_read); readcnt += 1
ReadEnter(t) ==
    /\ ~dead /\ pc[t] = "r_enter" /\ P_ready(my_cache.mutex_read)
    /\ my_cache' = [my_cache EXCEPT !.mutex_read = P(@), !.readcnt = @ + 1]
    /\ Goto(t, IF my_cache.readcnt + 1 = 1 THEN "r_first" ELSE "r_entered")
    /\ UNCHANGED <<blocks, allocated, loc, ncalls, dead, stored, recency, evLog>>
    /\ UNCHANGED <<mmvars, proxyvars>>

\* a plausible slip: the first reader does not take mutex_write
ReadFirst_no_P(t) ==
    /\ ~dead /\ pc[t] = "r_first"
    /\ Goto(t, "r_entered")
    /\ UNCHANGED <<my_cache, blocks, allocated, loc, ncalls, dead, stored, recency, evLog>>
    /\ UNCHANGED <<mmvars, proxyvars>>

\* the first reader: P(mutex_write)
ReadFirst(t) ==
    /\ ~dead /\ pc[t] = "r_first" /\ P_ready(my_cache.mutex_write)
    /\ my_cache' = [my_cache EXCEPT !.mutex_write = P(@)]
    /\ Goto(t, "r_entered")
    /\ UNCHANGED <<blocks, allocated, loc, ncalls, dead, stored, recency, evLog>>
    /\ UNCHANGED <<mmvars, proxyvars>>

\* V(mutex_read)
ReadEntered(t) ==
    /\ ~dead /\ pc[t] = "r_entered"
    /\ my_cache' = [my_cache EXCEPT !.mutex_read = V(@)]
    /\ Goto(t, "r_search")
    /\ UNCHANGED <<blocks, allocated, loc, ncalls, dead, stored, recency, evLog>>
    /\ UNCHANGED <<mmvars, proxyvars>>

\* search_block and, on a hit, read_cache_block
ReadSearch(t) ==
    /\ ~dead /\ pc[t] = "r_search"
    /\ LET Found(block_ptr) ==
               /\ block_ptr # Endless
               /\ IF block_ptr = NULL
                  THEN /\ Goto(t, "m_exit")
                       /\ UNCHANGED loc
                  ELSE /\ Goto(t, "h_exit")
                       /\ loc' = [loc EXCEPT
                                    ![t].block_ptr = block_ptr,
                                    ![t].read_len = read_cache_block(S0, block_ptr).read_len,
                                    ![t].buffer = read_cache_block(S0, block_ptr).buffer]
       IN  Found(search_block(S0, loc[t].host, loc[t].uri))
    /\ UNCHANGED <<my_cache, blocks, allocated, ncalls, dead, stored, recency, evLog>>
    /\ UNCHANGED <<mmvars, proxyvars>>

\* a plausible slip: every reader that leaves releases mutex_write
MissExit_always_last(t) ==
    /\ ~dead /\ pc[t] = "m_exit" /\ P_ready(my_cache.mutex_read)
    /\ my_cache' = [my_cache EXCEPT !.mutex_read = P(@), !.readcnt = @ - 1]
    /\ Goto(t, "m_last")
    /\ UNCHANGED <<blocks, allocated, loc, ncalls, dead, stored, recency, evLog>>
    /\ UNCHANGED <<mmvars, proxyvars>>

\* miss: P(mutex_read); readcnt -= 1
MissExit(t) ==
    /\ ~dead /\ pc[t] = "m_exit" /\ P_ready(my_cache.mutex_read)
    /\ my_cache' = [my_cache EXCEPT !.mutex_read = P(@), !.readcnt = @ - 1]
    /\ Goto(t, IF my_cache.readcnt - 1 = 0 THEN "m_last" ELSE "m_exited")
    /\ UNCHANGED <<blocks, allocated, loc, ncalls, dead, stored, recency, evLog>>
    /\ UNCHANGED <<mmvars, proxyvars>>

\* miss, the last reader: V(mutex_write)
MissLast(t) ==
    /\ ~dead /\ pc[t] = "m_last"
    /\ my_cache' = [my_cache EXCEPT !.mutex_write = V(@)]
    /\ Goto(t, "m_exited")
    /\ UNCHANGED <<blocks, allocated, loc, ncalls, dead, stored, recency, evLog>>
    /\ UNCHANGED <<mmvars, proxyvars>>

\* miss: V(mutex_read); return -1
MissReturn(t) ==
    /\ ~dead /\ pc[t] = "m_exited"
    /\ my_cache' = [my_cache EXCEPT !.mutex_read = V(@)]
    /\ loc' = [loc EXCEPT ![t].ret = 0 - 1]
    /\ Goto(t, "idle")
    /\ UNCHANGED <<blocks, allocated, ncalls, dead, stored, recency, evLog>>
    /\ UNCHANGED <<mmvars, proxyvars>>

\* a plausible slip: on the hit path the last reader is not told apart
HitExit_never_last(t) ==
    /\ ~dead /\ pc[t] = "h_exit" /\ P_ready(my_cache.mutex_read)
    /\ my_cache' = [my_cache EXCEPT !.mutex_read = P(@), !.readcnt = @ - 1]
    /\ Goto(t, "h_exited")
    /\ UNCHANGED <<blocks, allocated, loc, ncalls, dead, stored, recency, evLog>>
    /\ UNCHANGED <<mmvars, proxyvars>>

\* hit: P(mutex_read); readcnt -= 1
HitExit(t) ==
    /\ ~dead /\ pc[t] = "h_exit" /\ P_ready(my_cache.mutex_read)
    /\ my_cache' = [my_cache EXCEPT !.mutex_read = P(@), !.readcnt = @ - 1]
    /\ Goto(t, IF my_cache.readcnt - 1 = 0 THEN "h_last" ELSE "h_exited")
    /\ UNCHANGED <<blocks, allocated, loc, ncalls, dead, stored, recency, evLog>>
    /\ UNCHANGED <<mmvars, proxyvars>>

\* hit, the last reader: V(mutex_write)
HitLast(t) ==
    /\ ~dead /\ pc[t] = "h_last"
    /\ my_cache' = [my_cache EXCEPT !.mutex_write = V(@)]
    /\ Goto(t, "h_exited")
    /\ UNCHANGED <<blocks, allocated, loc, ncalls, dead, stored, recency, evLog>>
    /\ UNCHANGED <<mmvars, proxyvars>>

\* hit: V(mutex_read), then lru_update is called
HitExited(t) ==
    /\ ~dead /\ pc[t] = "h_exited"
    /\ my_cache' = [my_cache EXCEPT !.mutex_read = V(@)]
    /\ Goto(t, "l_lock")
    /\ UNCHANGED <<blocks, allocated, loc, ncalls, dead, stored, recency, evLog>>
    /\ UNCHANGED <<mmvars, proxyvars>>

\* lru_update: P(mutex_write)
LruLock(t) ==
    /\ ~dead /\ pc[t] = "l_lock" /\ P_ready(my_cache.mutex_write)
    /\ my_cache' = [my_cache EXCEPT !.mutex_write = P(@)]
    /\ Goto(t, "l_update")
    /\ UNCHANGED <<blocks, allocated, loc, ncalls, dead, stored, recency, evLog>>
    /\ UNCHANGED <<mmvars, proxyvars>>

\* lru_update: remove_block, insert_block.  When the block was freed in the
\* meantime the two calls act on whatever the memory holds, or the process
\* dies on the access.
LruUpdate(t) ==
    /\ ~dead /\ pc[t] = "l_update"
    /\ LET Done(s) == /\ my_cache' = s.mc
                      /\ blocks' = s.blk
       IN  \/ /\ Done(insert_block(remove_block(S0, loc[t].block_ptr), loc[t].block_ptr))
              /\ recency' = IF \E i \in DOMAIN recency : recency[i] = loc[t].buffer
                            THEN <<loc[t].buffer>> \o Without(recency, loc[t].buffer)
                            ELSE recency
              /\ Goto(t, "l_unlock")
              /\ UNCHANGED dead
           \/ /\ loc[t].block_ptr \notin allocated
              /\ dead' = TRUE
              /\ UNCHANGED <<my_cache, blocks, recency, pc>>
    /\ UNCHANGED <<allocated, loc, ncalls, stored, evLog>>
    /\ UNCHANGED <<mmvars, proxyvars>>

\* lru_update: V(mutex_write); read_cache returns read_len
LruUnlock(t) ==
    /\ ~dead /\ pc[t] = "l_unlock"
    /\ my_cache' = [my_cache EXCEPT !.mutex_write = V(@)]
    /\ loc' = [loc EXCEPT ![t].ret = loc[t].read_len, ![t].block_ptr = NULL]
    /\ Goto(t, "idle")
    /\ UNCHANGED <<blocks, allocated, ncalls, dead, stored, recency, evLog>>
    /\ UNCHANGED <<mmvars, proxyvars>>

\* a plausible slip: the length is checked after the gate is taken
WriteBegin_lock_first(t, cache, key, len) ==
    /\ ~dead /\ pc[t] = "idle"
    /\ IF cache = NULL
       THEN /\ loc' = [loc EXCEPT ![t] = [NoCall EXCEPT !.op = "write", !.cache = cache,
                                                        !.host = key[1], !.uri = key[2],
                                                        !.len = len, !.ret = 0 - 1]]
            /\ UNCHANGED <<pc, my_cache>>
       ELSE IF len > my_cache.max_object_size
       THEN /\ P_ready(my_cache.mutex_write)
            /\ my_cache' = [my_cache EXCEPT !.mutex_write = P(@)]
            /\ loc' = [loc EXCEPT ![t] = [NoCall EXCEPT !.op = "write", !.host = key[1],
                                                        !.uri = key[2], !.len = len]]
            /\ Goto(t, "w_fail")
       ELSE /\ loc' = [loc EXCEPT ![t] = [NoCall EXCEPT !.op = "write", !.host = key[1],
                                                        !.uri = key[2], !.len = len,
                                                        !.data = ncalls + 1]]
            /\ Goto(t, "w_lock")
            /\ UNCHANGED my_cache
    /\ UNCHANGED <<blocks, allocated, dead, stored, recency, evLog>>
    /\ UNCHANGED <<mmvars, proxyvars>>

\* write_cache(cache, key[1], key[2], buffer, len) is entered: the null test
\* and the length check
WriteBegin(t, cache, key, len) ==
    /\ ~dead /\ pc[t] = "idle"
    /\ IF cache = NULL
       THEN /\ loc' = [loc EXCEPT ![t] = [NoCall EXCEPT !.op = "write", !.cache = cache,
                                                        !.host = key[1], !.uri = key[2],
                                                        !.len = len, !.ret = 0 - 1]]
            /\ UNCHANGED pc
       ELSE IF len > my_cache.max_object_size
       THEN /\ loc' = [loc EXCEPT ![t] = [NoCall EXCEPT !.op = "write", !.host = key[1],
                                                        !.uri = key[2], !.len = len,
                                                        !.ret = 0 - 1]]
            /\ UNCHANGED pc
       ELSE /\ loc' = [loc EXCEPT ![t] = [NoCall EXCEPT !.op = "write", !.host = key[1],
                                                        !.uri = key[2], !.len = len,
                                                        !.data = ncalls + 1]]
            /\ Goto(t, "w_lock")
    /\ UNCHANGED <<my_cache, blocks, allocated, dead, stored, recency, evLog>>
    /\ UNCHANGED <<mmvars, proxyvars>>

\* write_cache is called on the cache
WriteCall(t, key, len) ==
    /\ ncalls < MaxCalls
    /\ ncalls' = ncalls + 1
    /\ WriteBegin(t, Handle, key, len)

\* write_cache is called with a null handle
WriteNull(t, key, len) ==
    /\ ncalls < MaxCalls
    /\ ncalls' = ncalls + 1
    /\ WriteBegin(t, NULL, key, len)

\* P(mutex_write)
WriteLock(t) ==
    /\ ~dead /\ pc[t] = "w_lock" /\ P_ready(my_cache.mutex_write)
    /\ my_cache' = [my_cache EXCEPT !.mutex_write = P(@)]
    /\ evLog' = <<>>
    /\ Goto(t, "w_room")
    /\ UNCHANGED <<blocks, allocated, loc, ncalls, dead, stored, recency>>
    /\ UNCHANGED <<mmvars, proxyvars>>

\* one turn of the loop while (space < len) eviction().  On an empty list
\* remove_block dereferences NULL; freeing a block that is already free
\* kills the process or goes unnoticed.
WriteEvict(t) ==
    /\ ~dead /\ pc[t] = "w_room" /\ my_cache.space < loc[t].len
    /\ LET Evict(lru_block) ==
               /\ lru_block # Endless
               /\ \/ /\ lru_block # NULL
                     /\ my_cache' = eviction(S0, lru_block).mc
                     /\ blocks' = eviction(S0, lru_block).blk
                     /\ allocated' = eviction(S0, lru_block).al
                     /\ stored' = {r \in stored : r.id # blocks[lru_block].payload}
                     /\ recency' = Without(recency, blocks[lru_block].payload)
                     /\ evLog' = Append(evLog,
                                   [victim |-> blocks[lru_block].payload,
                                    oldest |-> IF recency = <<>> THEN 0
                                               ELSE recency[Len(recency)],
                                    space |-> my_cache.space,
                                    len |-> loc[t].len])
                     /\ UNCHANGED dead
                  \/ /\ lru_block = NULL \/ lru_block \notin allocated
                     /\ dead' = TRUE
                     /\ UNCHANGED <<my_cache, blocks, allocated, stored, recency, evLog>>
       IN  Evict(get_lru(S0))
    /\ UNCHANGED <<pc, loc, ncalls>>
    /\ UNCHANGED <<mmvars, proxyvars>>

\* create_block succeeds at address a; insert_block
WriteCreate(t) ==
    /\ ~dead /\ pc[t] = "w_room" /\ my_cache.space >= loc[t].len
    /\ \E a \in MallocChoices(S0) :
          LET Done(s) == /\ my_cache' = s.mc
                         /\ blocks' = s.blk
                         /\ allocated' = s.al
          IN  /\ Done(insert_block(create_block(S0, a, loc[t].host, loc[t].uri,
                                                loc[t].data, loc[t].len), a))
              /\ loc' = [loc EXCEPT ![t].block_ptr = a]
    /\ recency' = <<loc[t].data>> \o recency
    /\ Goto(t, "w_unlock")
    /\ UNCHANGED <<ncalls, dead, stored, evLog>>
    /\ UNCHANGED <<mmvars, proxyvars>>

\* create_block returns NULL for lack of memory.  When Malloc refuses the
\* block itself nothing changes.  When it refuses a later buffer, the block
\* stays allocated and no pointer to it is kept: leaving the key strings
\* aside, that is seen only where Malloc gave the block an address a thread
\* may still hold, that of a block freed before, and only when the payload
\* was refused, after the key, the size and the links were set.
WriteNoMemory(t) ==
    /\ ~dead /\ pc[t] = "w_room" /\ my_cache.space >= loc[t].len
    /\ \/ UNCHANGED <<blocks, allocated>>
       \/ \E a \in {b \in MallocChoices(S0) : blocks[b].host # ""} :
             LET Left(s) == /\ blocks' = s.blk
                            /\ allocated' = s.al
             IN  Left(create_block(S0, a, loc[t].host, loc[t].uri, NULL, loc[t].len))
    /\ Goto(t, "w_fail")
    /\ UNCHANGED <<my_cache, loc, ncalls, dead, stored, recency, evLog>>
    /\ UNCHANGED <<mmvars, proxyvars>>

\* the block is NULL: V(mutex_write); return -1
WriteFail(t) ==
    /\ ~dead /\ pc[t] = "w_fail"
    /\ my_cache' = [my_cache EXCEPT !.mutex_write = V(@)]
    /\ loc' = [loc EXCEPT ![t].ret = 0 - 1, ![t].data = 0]
    /\ Goto(t, "idle")
    /\ UNCHANGED <<blocks, allocated, ncalls, dead, stored, recency, evLog>>
    /\ UNCHANGED <<mmvars, proxyvars>>

\* V(mutex_write); return 1
WriteUnlock(t) ==
    /\ ~dead /\ pc[t] = "w_unlock"
    /\ my_cache' = [my_cache EXCEPT !.mutex_write = V(@)]
    /\ stored' = stored \cup {[id |-> loc[t].data, host |-> loc[t].host,
                               uri |-> loc[t].uri, len |-> loc[t].len]}
    /\ loc' = [loc EXCEPT ![t].ret = 1, ![t].data = 0, ![t].block_ptr = NULL]
    /\ Goto(t, "idle")
    /\ UNCHANGED <<blocks, allocated, ncalls, dead, recency, evLog>>
    /\ UNCHANGED <<mmvars, proxyvars>>

\* the next step of thread t inside read_cache or write_cache
Proceed(t) ==
    \/ ReadEnter(t)
    \/ ReadFirst(t)
    \/ ReadEntered(t)
    \/ ReadSearch(t)
    \/ MissExit(t)
    \/ MissLast(t)
    \/ MissReturn(t)
    \/ HitExit(t)
    \/ HitLast(t)
    \/ HitExited(t)
    \/ LruLock(t)
    \/ LruUpdate(t)
    \/ LruUnlock(t)
    \/ WriteLock(t)
    \/ WriteEvict(t)
    \/ WriteCreate(t)
    \/ WriteNoMemory(t)
    \/ WriteFail(t)
    \/ WriteUnlock(t)

CacheNext ==
    \E t \in Threads :
        \/ \E key \in Keys : ReadCall(t, key)
        \/ \E a \in WriteArgs : WriteCall(t, a[1], a[2])
        \/ \E a \in NullArgs : WriteNull(t, a[1], a[2])
        \/ Proceed(t)

\* Calls that run to completion one after the other: a call is entered only
\* while no thread is inside one.  Both keys are written with length 1 too,
\* so that blocks of both can lie between two blocks of one key.
SeqNext ==
    \E t \in Threads :
        \/ (\A u \in Threads : pc[u] = "idle") /\ \E key \in Keys : ReadCall(t, key)
        \/ /\ \A u \in Threads : pc[u] = "idle"
           /\ \E a \in WriteArgs \cup (Keys \X {1}) : WriteCall(t, a[1], a[2])
        \/ Proceed(t)

\* Continuous reader load: the two threads of Threads read a key that is
\* never written, again and again, and while the third thread waits for
\* mutex_write a reader leaves the cohort only when another reader is in it.
\* The third thread writes.
Writer == "t3"

StarveInit ==
    /\ my_cache = init_cache(CacheSize, ObjectSize)
    /\ blocks = [a \in Addrs |-> NoBlock]
    /\ allocated = {}
    /\ pc = [t \in Threads \cup {Writer} |-> "idle"]
    /\ loc = [t \in Threads \cup {Writer} |-> NoCall]
    /\ ncalls = 0
    /\ dead = FALSE
    /\ stored = {}
    /\ recency = <<>>
    /\ evLog = <<>>

ReaderStep(r) ==
    \/ ReadBegin(r, Handle, KeyV) /\ UNCHANGED ncalls
    \/ ReadEnter(r)
    \/ ReadFirst(r)
    \/ ReadEntered(r)
    \/ ReadSearch(r)
    \/ (my_cache.readcnt >= 2 \/ pc[Writer] # "w_lock") /\ MissExit(r)
    \/ MissLast(r)
    \/ MissReturn(r)

WriterStep(w) ==
    \/ WriteCall(w, KeyU, 1)
    \/ WriteLock(w)
    \/ WriteEvict(w)
    \/ WriteCreate(w)
    \/ WriteNoMemory(w)
    \/ WriteFail(w)
    \/ WriteUnlock(w)

StarveNext == (\E r \in Threads : ReaderStep(r)) \/ WriterStep(Writer)

\* One worker thread makes the calls of a script, one after the other: its
\* k-th call writes the k-th key of the script with one of the lengths given
\* for it, or reads the first key.  The keys are A, B, C, D, one more, E.
ClientScript ==
    << <<KeyU, {3, 5}>>, <<<<"h", "/b">>, {3}>>, <<<<"x", "/y">>, {1, 3}>>,
       <<<<"h", "/d">>, {3}>>, <<KeyV, {3}>>, <<<<"h", "/e">>, {3}>> >>

\* the cache after init_cache with one of the given size pairs
\* <<max_cache_size, max_object_size>>
ClientInit(sizes) ==
    /\ \E z \in sizes : my_cache = init_cache(z[1], z[2])
    /\ blocks = [a \in 1..(MaxBlocks + 1) |-> NoBlock]
    /\ allocated = {}
    /\ pc = [t \in Threads |-> "idle"]
    /\ loc = [t \in Threads |-> NoCall]
    /\ ncalls = 0
    /\ dead = FALSE
    /\ stored = {}
    /\ recency = <<>>
    /\ evLog = <<>>

ClientNext ==
    \E t \in {"t1"} :
        \/ /\ ncalls < Len(ClientScript)
           /\ ncalls' = ncalls + 1
           /\ \E len \in ClientScript[ncalls + 1][2] :
                 WriteBegin(t, Handle, ClientScript[ncalls + 1][1], len)
        \/ /\ ncalls < Len(ClientScript)
           /\ ncalls' = ncalls + 1
           /\ ReadBegin(t, Handle, KeyU)
        \/ ReadEnter(t)
        \/ ReadFirst(t)
        \/ ReadEntered(t)
        \/ ReadSearch(t)
        \/ MissExit(t)
        \/ MissLast(t)
        \/ MissReturn(t)
        \/ HitExit(t)
        \/ HitLast(t)
        \/ HitExited(t)
        \/ LruLock(t)
        \/ LruUpdate(t)
        \/ LruUnlock(t)
        \/ WriteLock(t)
        \/ WriteEvict(t)
        \/ WriteCreate(t)
        \/ WriteUnlock(t)

(***************************************************************************)
(* Views of the cache, used to state the properties                        *)
(***************************************************************************)
\* the blocks met by following next_cache_block from block_ptr, at most fuel
RECURSIVE CacheListFrom(_, _)
CacheListFrom(block_ptr, fuel) ==
    IF block_ptr = NULL \/ fuel = 0 THEN <<>>
    ELSE <<block_ptr>> \o CacheListFrom(blocks[block_ptr].next_cache_block, fuel - 1)

CacheList == CacheListFrom(my_cache.root, MaxBlocks + 1)

RECURSIVE SumPayload(_)
SumPayload(q) ==
    IF q = <<>> THEN 0 ELSE blocks[Head(q)].payload_size + SumPayload(Tail(q))

\* the list from root ends at a null forward-link without meeting a block
\* twice, the back-link of root is null, and the back-link of every other
\* block is the block before it
ListWellFormed ==
    LET q == CacheList
    IN  /\ \A i, j \in DOMAIN q : i # j => q[i] # q[j]
        /\ q # <<>> => /\ blocks[q[Len(q)]].next_cache_block = NULL
                       /\ blocks[q[1]].prev_cache_block = NULL
        /\ \A i \in DOMAIN q : i > 1 => blocks[q[i]].prev_cache_block = q[i - 1]

\* no thread is inside read_cache or write_cache
Quiescent ==\A t \in Threads : pc[t] = "idle"

\* t is between P(mutex_write) and V(mutex_write) of write_cache or lru_update
WriterSection(t) == pc[t] \in {"w_room", "w_unlock", "w_fail", "l_update", "l_unlock"}

\* t has completed the entry protocol of read_cache and not begun its exit
ReaderCohort(t) == pc[t] \in {"r_entered", "r_search", "m_exit", "h_exit"}

\* C5: while a thread is in a writer-class section (the body of write_cache
\* or of lru_update) no other thread is in such a section and no thread of
\* the reader cohort is searching the list or copying a payload.
C5_MutualExclusion ==
    \A t \in Threads : \A u \in Threads \ {t} :
        WriterSection(t) => ~WriterSection(u) /\ ~ReaderCohort(u)

\* a write is making room in a cache that holds a block while the other
\* thread, a first reader, waits for mutex_write
C5_Witness ==
    \E t \in Threads : \E u \in Threads \ {t} :
        /\ pc[t] = "w_room" /\ my_cache.root # NULL
        /\ pc[u] = "r_first"
        /\ my_cache.mutex_write = 0 /\ my_cache.readcnt = 1

\* C6: at every quiescent point remaining space plus the payload sizes of the
\* blocks reachable from root equals max_cache_size, and the space is within
\* 0..max_cache_size.
C6_SpaceAccount ==
    Quiescent =>
        /\ my_cache.space + SumPayload(CacheList) = CacheSize
        /\ my_cache.space >= 0 /\ my_cache.space <= CacheSize

\* C7: a read of key K that has returned gave the length and the payload of
\* every write of K that returned 1 before the read was called and whose
\* block no write has evicted.
C7_ReadAfterWrite ==
    \A t \in Threads :
        (pc[t] = "idle" /\ loc[t].op = "read") =>
            \A r \in stored :
                (r.id \in loc[t].snap /\ r.host = loc[t].host /\ r.uri = loc[t].uri)
                    => (loc[t].ret = r.len /\ loc[t].buffer = r.id)

\* C8: every eviction of a write took the entry least recently read or
\* written among the entries present, and took it only while space < len.
C8_EvictsLeastRecent ==
    \A i \in DOMAIN evLog :
        /\ evLog[i].victim = evLog[i].oldest
        /\ evLog[i].space < evLog[i].len

\* C20: whenever no thread is inside a call, no two blocks of the cache list
\* have the same (host, uri) key.
C20_KeysUnique ==
    Quiescent =>
        \A i, j \in DOMAIN CacheList :
            i # j => (blocks[CacheList[i]].host # blocks[CacheList[j]].host
                      \/ blocks[CacheList[i]].uri # blocks[CacheList[j]].uri)

\* C21: a write_cache call whose handle is null or whose len exceeds
\* max_object_size returns -1 in its first step: it takes no gate (the
\* semaphores, readcnt and space keep their values and the thread is not
\* waiting), frees no block, and the list and its order are unchanged.
C21_RejectedWriteFrame ==
    [][\A t \in Threads :
          (/\ pc[t] = "idle" /\ ncalls' # ncalls
           /\ \A u \in Threads \ {t} : pc'[u] = pc[u] /\ loc'[u] = loc[u]
           /\ loc'[t].op = "write"
           /\ (loc'[t].cache = NULL \/ loc'[t].len > my_cache.max_object_size))
          => /\ loc'[t].ret = 0 - 1
             /\ pc'[t] = "idle"
             /\ my_cache' = my_cache
             /\ allocated' = allocated
             /\ blocks' = blocks
             /\ CacheList' = CacheList]_cachevars

\* both kinds of rejected write have returned while the cache holds a block
C21_Witness ==
    \E t \in Threads : \E u \in Threads \ {t} :
        /\ pc[t] = "idle" /\ loc[t].op = "write" /\ loc[t].cache = NULL
        /\ loc[t].ret = 0 - 1
        /\ pc[u] = "idle" /\ loc[u].op = "write" /\ loc[u].cache # NULL
        /\ loc[u].len > my_cache.max_object_size /\ loc[u].ret = 0 - 1
        /\ my_cache.root # NULL /\ my_cache.mutex_write = 1

\* C22: when a write whose block could not be allocated returns, it returns
\* -1 and mutex_write is free; the list is a well-formed doubly linked list
\* of allocated blocks; none of the blocks this write evicted and not the new
\* block is in it; and space plus the payload sizes of the list is
\* max_cache_size.
C22_FailedWriteConsistent ==
    [][\A t \in Threads :
          (pc[t] = "w_fail" /\ pc'[t] = "idle")
          => /\ loc'[t].ret = 0 - 1
             /\ my_cache'.mutex_write = 1
             /\ ListWellFormed'
             /\ \A i \in DOMAIN CacheList' :
                   /\ CacheList'[i] \in allocated'
                   /\ blocks'[CacheList'[i]].payload # loc[t].data
                   /\ \A k \in DOMAIN evLog :
                         blocks'[CacheList'[i]].payload # evLog[k].victim
             /\ my_cache'.space + SumPayload(CacheList)' = CacheSize]_cachevars

\* the writer waits for mutex_write while the reader cohort holds it
Starved(w) ==
    /\ pc[w] = "w_lock"
    /\ my_cache.readcnt > 0
    /\ \A r \in Threads : pc[r] # "r_first"

\* C23: under continuous reader load a writer that waits for mutex_write
\* while the reader cohort holds it waits for ever, readcnt staying above 0,
\* although every thread is scheduled again and again and every reader goes
\* on completing reads: the write never returns.
C23_WriterStarves ==
    /\ [][Starved(Writer) => (Starved(Writer)' /\ my_cache'.readcnt > 0)]_cachevars
    /\ \A r \in Threads : []<>(pc[r] = "idle") /\ []<>(pc[r] = "r_search")

\* the writer waits behind the cohort while one reader has just left it and
\* the other is still in it
C23_Witness ==
    /\ Starved(Writer)
    /\ my_cache.mutex_write = 0 /\ my_cache.readcnt = 1
    /\ pc["t1"] = "m_exited" /\ pc["t2"] = "m_exit"

\* the step free(b) of the scenario: three 32-byte requests a, b, c were
\* granted at the start of the heap, a and then c were freed, and b, the
\* middle block, is freed by the sixth call
ScenarioFreeB ==
    /\ nops = 5 /\ nops' = 6
    /\ DOMAIN live = {FirstBlock + malloc_a_size(32)}
    /\ SizeAt(HDRP(FirstBlock + malloc_a_size(32))) = malloc_a_size(32)
    /\ FirstBlock \in FreeBlocks /\ SizeAt(HDRP(FirstBlock)) = malloc_a_size(32)
    /\ lastOp.op = "free" /\ lastOp.ptr = FirstBlock + 2 * malloc_a_size(32)
    /\ lastOp.osize = malloc_a_size(32)
    /\ lastOp'.op = "free" /\ lastOp'.ptr = FirstBlock + malloc_a_size(32)

Entry(k) == ClientScript[k][1]
Rec(k, len) == [id |-> k, host |-> Entry(k)[1], uri |-> Entry(k)[2], len |-> len]
Present(key) == search_block(S0, key[1], key[2]) \notin {NULL, Endless}

\* the four 3-byte entries A, B, C, D have been written in that order, by
\* the calls 1 to 4: the write of D found 1 byte free and evicted the entry
\* of call 1, and B, C, D are the stored entries
WroteABCD ==
    /\ stored = {Rec(k, 3) : k \in 2..4}
    /\ Len(evLog) = 1 /\ evLog[1].victim = 1 /\ evLog[1].space = 1 /\ evLog[1].len = 3

\* after them A has been read by call 5
ReadA ==
    /\ WroteABCD /\ ncalls = 5 /\ pc["t1"] = "idle" /\ loc["t1"].op = "read"

\* and E has been written by call 6: that write found 1 byte free beside B,
\* C and D and evicted one entry, that of call 2, so call 5 was the read
WroteE ==
    /\ ncalls = 6 /\ pc["t1"] = "idle" /\ loc["t1"].op = "write" /\ loc["t1"].ret = 1
    /\ {Rec(3, 3), Rec(4, 3)} \subseteq stored
    /\ Len(evLog) = 1 /\ evLog[1].victim = 2 /\ evLog[1].space = 1 /\ evLog[1].len = 3

\* C25 as stated: on a cache initialised with max_cache_size = 10 and
\* max_object_size = 10, after writing four 3-byte entries A, B, C, D in
\* that order a read of A is a hit, and after then writing a 3-byte entry E,
\* B has been evicted while A, C, D and E are all present.
C25_ScenarioF_AsStated ==
    /\ ReadA => loc["t1"].ret = 3
    /\ WroteE => /\ ~Present(Entry(2))
                 /\ \A k \in {1, 3, 4, 6} : Present(Entry(k))

\* C25 amended: on that cache, the write of D evicts A, since three 3-byte
\* entries fill the 10 bytes; after the four writes a read of A is a miss,
\* and after then writing a 3-byte entry E, B has been evicted as well while
\* C, D and E are all present.
C25_ScenarioF ==
    /\ WroteABCD => /\ ~Present(Entry(1))
                    /\ ncalls = 4 => \A k \in 2..4 : Present(Entry(k))
    /\ ReadA => loc["t1"].ret = 0 - 1
    /\ WroteE => /\ ~Present(Entry(1)) /\ ~Present(Entry(2))
                 /\ \A k \in {3, 4, 6} : Present(Entry(k))
                 /\ Len(CacheList) = 3

\* the six calls have been made: E is stored and the read of A returned
C25_Witness ==
    /\ WroteE /\ Rec(6, 3) \in stored
    /\ blocks[my_cache.root].payload = 6
    /\ my_cache.space = 1

\* write(cache, "h", "/u", "hello", 5) was call 1, a read of ("h", "/u")
\* call 2 and write(cache, "x", "/y", "X", 1) call 3: both writes are stored,
\* so call 2 wrote nothing
WroteHelloReadWroteX ==
    /\ ncalls = 3 /\ pc["t1"] = "idle" /\ loc["t1"].op = "write" /\ loc["t1"].ret = 1
    /\ stored = {Rec(1, 5), Rec(3, 1)}
    /\ Entry(1) = <<"h", "/u">> /\ Entry(3) = <<"x", "/y">>

\* C26 as stated: after write(cache, "h", "/u", "hello", 5), a read of
\* ("h", "/u"), and then a second write(cache, "x", "/y", "X", 1), the block
\* ("h", "/u") is at the MRU position of the list, which is its root.
C26_ScenarioE_AsStated ==
    WroteHelloReadWroteX =>
        /\ my_cache.root # NULL
        /\ <<blocks[my_cache.root].host, blocks[my_cache.root].uri>> = Entry(1)

\* C26 amended: after the same three calls the newly written block
\* ("x", "/y") is at the MRU position of the list, and the block ("h", "/u")
\* is directly behind it, at the LRU position.
C26_ScenarioE ==
    WroteHelloReadWroteX =>
        /\ Len(CacheList) = 2
        /\ <<blocks[CacheList[1]].host, blocks[CacheList[1]].uri>> = Entry(3)
        /\ <<blocks[CacheList[2]].host, blocks[CacheList[2]].uri>> = Entry(1)
        /\ CacheList[1] = my_cache.root
        /\ CacheList[2] = get_lru(S0)

\* the three calls have been made and 4 of the 10 bytes are left
C26_Witness ==
    /\ WroteHelloReadWroteX
    /\ my_cache.space = 4
    /\ recency = <<3, 1>>

\* C27: no thread relinks or re-inserts a cache block after it was evicted
\* and freed: the block that lru_update is about to unlink and re-insert is
\* still allocated and still is the block the read hit (its address was not
\* given to a newer block), and every block of the list is allocated, so no
\* evicted block reappears in it.
C27_NoUseAfterFree ==
    /\ \A t \in Threads :
          pc[t] = "l_update" =>
              /\ loc[t].block_ptr \in allocated
              /\ blocks[loc[t].block_ptr].payload = loc[t].buffer
    /\ \A i \in DOMAIN CacheList : CacheList[i] \in allocated

\* the threads that have completed the entry protocol of read_cache, up to
\* V(mutex_read), and have not begun the exit protocol with P(mutex_read)
InCohort == {t \in Threads : pc[t] \in {"r_search", "m_exit", "h_exit"}}

\* C28: whenever mutex_read is free, readcnt is the number of threads that
\* have completed the entry protocol and not yet the exit protocol, and
\* mutex_write is held for the reader cohort exactly when readcnt > 0 (it is
\* taken and no thread is in a writer section); neither semaphore exceeds 1.
\* A reader takes mutex_write only after raising readcnt from 0 to 1 and
\* releases it only after lowering it from 1 to 0, and every reader that
\* makes one of these transitions does, on the hit and on the miss path.
C28_ReaderProtocol ==
    /\ [](/\ my_cache.mutex_read \in {0, 1} /\ my_cache.mutex_write \in {0, 1}
          /\ my_cache.mutex_read = 1 =>
                /\ my_cache.readcnt = Cardinality(InCohort)
                /\ my_cache.readcnt > 0 <=>
                       /\ my_cache.mutex_write = 0
                       /\ \A t \in Threads : ~WriterSection(t))
    /\ [][\A t \in Threads :
            /\ (pc[t] = "r_enter" /\ pc'[t] # pc[t]) =>
                  (pc'[t] = "r_first" <=> (my_cache.readcnt = 0 /\ my_cache'.readcnt = 1))
            /\ (pc[t] \in {"m_exit", "h_exit"} /\ pc'[t] # pc[t]) =>
                  (pc'[t] \in {"m_last", "h_last"}
                     <=> (my_cache.readcnt = 1 /\ my_cache'.readcnt = 0))
            /\ (pc[t] \in {"r_enter", "r_first", "r_entered", "r_search", "m_exit",
                            "m_last", "m_exited", "h_exit", "h_last", "h_exited"}
                  /\ pc'[t] # pc[t]) =>
                  /\ my_cache'.mutex_write < my_cache.mutex_write =>
                        pc[t] = "r_first" /\ my_cache.readcnt = 1
                  /\ my_cache'.mutex_write > my_cache.mutex_write =>
                        pc[t] \in {"m_last", "h_last"} /\ my_cache.readcnt = 0
                  /\ pc[t] \in {"r_first", "m_last", "h_last"} =>
                        my_cache'.mutex_write # my_cache.mutex_write]_cachevars

\* two readers are in the cohort, one that hit and one that missed, while
\* the other holds nothing: mutex_write was taken once, by the first of them
C28_Witness ==
    /\ my_cache.mutex_read = 1 /\ my_cache.readcnt = 2 /\ my_cache.mutex_write = 0
    /\ pc["t1"] = "h_exit" /\ pc["t2"] = "m_exit"

\* thread t waits at a P whose semaphore is taken
Blocked(t) ==
    \/ pc[t] \in {"r_enter", "m_exit", "h_exit"} /\ my_cache.mutex_read = 0
    \/ pc[t] \in {"r_first", "w_lock", "l_lock"} /\ my_cache.mutex_write = 0

\* C29: in no reachable state are all unfinished calls blocked on a gate,
\* and with the finitely many calls of a run and threads that are scheduled
\* fairly, every read_cache and write_cache call that was entered returns;
\* when all calls have returned both gates are free and readcnt = 0.
C29_CallsReturn ==
    /\ []((\E t \in Threads : pc[t] # "idle") => \E t \in Threads : pc[t] # "idle" /\ ~Blocked(t))
    /\ \A t \in Threads : (pc[t] # "idle") ~> (pc[t] = "idle")
    /\ [](Quiescent => /\ my_cache.mutex_read = 1 /\ my_cache.mutex_write = 1
                       /\ my_cache.readcnt = 0)

\* C30: whatever max_cache_size and max_object_size the cache was
\* initialised with, a write with len <= max_object_size never runs the
\* eviction step on an empty list: while its loop still needs room
\* (space < len) the list has a tail to evict.
C30_NoEvictionOnEmpty ==
    \A t \in Threads :
        (pc[t] = "w_room" /\ loc[t].len <= my_cache.max_object_size
                          /\ my_cache.space < loc[t].len)
            => my_cache.root # NULL /\ get_lru(S0) # NULL

\* C31: the step of write_cache that inserts the new block leaves it at root
\* with the blocks of the list behind it in their order, and an eviction
\* before it takes the tail alone; lru_update after a read hit on block X
\* leaves X at root with all other blocks in their order and the space
\* unchanged; the steps of a read miss change nothing of the cache.
C31_ListOrder ==
    [][\A t \in Threads :
         /\ (pc[t] = "w_room" /\ pc'[t] = "w_unlock") =>
               /\ my_cache'.root = loc'[t].block_ptr
               /\ CacheList' = <<loc'[t].block_ptr>> \o CacheList
         /\ (pc[t] = "w_room" /\ pc'[t] = "w_room" /\ my_cache'.space > my_cache.space) =>
               /\ CacheList # <<>>
               /\ CacheList' = SubSeq(CacheList, 1, Len(CacheList) - 1)
         /\ (pc[t] = "l_update" /\ pc'[t] = "l_unlock") =>
               /\ my_cache'.root = loc[t].block_ptr
               /\ CacheList' = <<loc[t].block_ptr>> \o Without(CacheList, loc[t].block_ptr)
               /\ Len(CacheList') = Len(CacheList)
               /\ my_cache'.space = my_cache.space
         /\ (pc[t] \in {"r_search", "m_exit", "m_last", "m_exited"}
               /\ pc'[t] \in {"m_exit", "m_last", "m_exited", "idle"} /\ pc'[t] # pc[t]) =>
               /\ CacheList' = CacheList
               /\ blocks' = blocks /\ allocated' = allocated
               /\ my_cache'.space = my_cache.space /\ my_cache'.root = my_cache.root
      ]_cachevars

\* the numbers of the writes of the key of thread t's call whose blocks are
\* in the cache: the higher the number, the later the write
WritesOfKey(t) == {r.id : r \in {x \in stored : x.host = loc[t].host /\ x.uri = loc[t].uri}}

\* C32: when calls run one after the other, a read hit returns and promotes
\* the most recently written block of its key that is still in the cache,
\* of two blocks of one key in the list the one written later is nearer to
\* root, and an eviction takes a block only when no block of the same key
\* written earlier stays behind.
C32_NewestOfKey ==
    /\ [](\A t \in Threads :
            pc[t] \in {"h_exit", "h_last", "h_exited", "l_lock", "l_update", "l_unlock"} =>
                /\ loc[t].buffer \in WritesOfKey(t)
                /\ \A n \in WritesOfKey(t) : n <= loc[t].buffer
                /\ blocks[loc[t].block_ptr].payload = loc[t].buffer)
    /\ [](\A i, j \in DOMAIN CacheList :
            (/\ i < j
             /\ blocks[CacheList[i]].host = blocks[CacheList[j]].host
             /\ blocks[CacheList[i]].uri = blocks[CacheList[j]].uri)
                => blocks[CacheList[i]].payload > blocks[CacheList[j]].payload)
    /\ [][\A r \in stored \ stored' : \A x \in stored' :
            (x.host = r.host /\ x.uri = r.uri) => x.id > r.id]_cachevars

\* K was written twice, a block of the other key was written, and a read of
\* K hit: it holds the later of the two blocks of K, which it found behind
\* the block of the other key
C32_Witness ==
    \E t \in Threads :
        /\ pc[t] = "l_update"
        /\ Cardinality(WritesOfKey(t)) = 2
        /\ Len(CacheList) = 3
        /\ CacheList[2] = loc[t].block_ptr
        /\ blocks[CacheList[1]].uri # loc[t].uri
        /\ blocks[CacheList[3]].uri = loc[t].uri

\* C33: a malloc (calloc calls it) grows the heap only when, at the time of
\* the call, no free block of the heap has the adjusted size or more.
C33_GrowsOnlyOnMiss ==
    [][(lastOp'.op \in {"malloc", "calloc"} /\ nops' = nops + 1 /\ brk' > brk) =>
          \A b \in FreeBlocks : SizeAt(HDRP(b)) < malloc_a_size(lastOp'.size)]_mmvars

\* a malloc has grown the heap although a free block lay before the block
\* it returned: that one was too small
C33_Witness ==
    /\ lastOp.op = "malloc" /\ lastOp.ret # NULL
    /\ brk > LISTS * DSIZE + 4 * WSIZE + CHUNKSIZE
    /\ \E b \in FreeBlocks : /\ b < lastOp.ret
                              /\ SizeAt(HDRP(b)) < malloc_a_size(lastOp.size)
    /\ lastOp.ret + SizeAt(HDRP(lastOp.ret)) > mem_heap_lo + LISTS * DSIZE + 4 * WSIZE + CHUNKSIZE

\* C34: after a malloc or realloc of n > 0 bytes that returned q, the block
\* at q has a size s with a <= s < a + 24 for a = max(24, roundup8(n + 8)):
\* it was split whenever the leftover would have been a block of 24 bytes
\* or more.
C34_BlockSizeWindow ==
    \A a \in {IF DSIZE * ((lastOp.size + DSIZE + 7) \div DSIZE) > MINIMUM_BLK_SIZE
               THEN DSIZE * ((lastOp.size + DSIZE + 7) \div DSIZE)
               ELSE MINIMUM_BLK_SIZE} :
        (lastOp.op \in {"malloc", "realloc"} /\ lastOp.size > 0 /\ lastOp.ret # NULL
            /\ ~crashed) =>
            /\ a <= SizeAt(HDRP(lastOp.ret))
            /\ SizeAt(HDRP(lastOp.ret)) < a + MINIMUM_BLK_SIZE
            /\ AllocAt(HDRP(lastOp.ret)) = 1

\* a realloc has grown a block in place over a free neighbour whose
\* leftover was too small to be a block: the block is larger than asked
C34_Witness ==
    /\ lastOp.op = "realloc" /\ lastOp.ret = lastOp.ptr /\ lastOp.ret # NULL
    /\ lastOp.osize < SizeAt(HDRP(lastOp.ret))
    /\ SizeAt(HDRP(lastOp.ret)) > realloc_new_size(lastOp.size)

\* C35: for every request size n from 1 to the maximum of size_t, malloc and
\* realloc compute the adjusted size a = max(24, roundup8(n + 8)) without
\* wrap-around: a >= 24, a >= n + 8 and a is a multiple of 8; and
\* malloc(16) yields a block of size 24.
C35_AdjustedSize ==
    /\ lastOp.op = "adjust" =>
          \A a \in {lastOp.ret, lastOp.osize} :
              /\ a >= MINIMUM_BLK_SIZE
              /\ a >= lastOp.size + HEADER_SIZE
              /\ a % ALIGNMENT = 0
    /\ (lastOp.op = "malloc" /\ lastOp.size = 16 /\ lastOp.ret # NULL) =>
          SizeAt(HDRP(lastOp.ret)) = MINIMUM_BLK_SIZE

\* the first node of the list l that is none of the nodes in gone, or NULL
FirstKept(l, gone) ==
    LET kept == SelectSeq(l, LAMBDA b : b \notin gone)
    IN  IF kept = <<>> THEN NULL ELSE Head(kept)

\* free(p) of the live block p of size o: pa and na are the allocated bits
\* of the physically previous and next block, ps and ns their sizes.  The
\* free block covering the bytes of p starts at m and has size sz, the next
\* block, when it was free, is a node of no class list, the merged block is
\* a node of one list only and the head of the list of class c, and its
\* forward-link is fwd
FreeMerges(p, o, pa, ps, na, ns, fwd) ==
    LET m == IF pa = 0 THEN p - ps ELSE p
        sz == o + (IF pa = 0 THEN ps ELSE 0) + (IF na = 0 THEN ns ELSE 0)
        c == get_list_index(sz)
    IN  /\ Word(HDRP(m))' = sz
        /\ Word(m + sz - DSIZE)' = sz
        /\ na = 0 => TimesListed(p + o)' = 0
        /\ TimesListed(m)' = 1
        /\ Link(origin + (c - 1) * DSIZE)' = m
        /\ Link(m + DSIZE)' = fwd

\* the class list the merged block of free(p) goes to, before the call
FormerList(p, o, pa, ps, na, ns) ==
    ClassList(get_list_index(o + (IF pa = 0 THEN ps ELSE 0) + (IF na = 0 THEN ns ELSE 0)))

\* the neighbours free(p) absorbs
Absorbed(p, o, pa, ps, na) ==
    (IF pa = 0 THEN {p - ps} ELSE {}) \cup (IF na = 0 THEN {p + o} ELSE {})

\* C36 as stated: after free(p) of a live block the free block covering the
\* bytes of p starts at the previous block if that was free and at p
\* otherwise, its size is size(p) plus the sizes of the neighbours that were
\* free, the absorbed neighbours are in no class list, and the merged block
\* is the head of the class list of its size with the head that list had
\* before the call as its forward-link.
C36_FreeMerges_AsStated ==
    [][\A p \in DOMAIN live :
          (lastOp'.op = "free" /\ lastOp'.ptr = p /\ nops' = nops + 1) =>
             \A o \in {live[p]} :
             \A pa \in {AllocAt(p - DSIZE)} : \A ps \in {SizeAt(p - DSIZE)} :
             \A na \in {AllocAt(HDRP(p + o))} : \A ns \in {SizeAt(HDRP(p + o))} :
             \A l \in {FormerList(p, o, pa, ps, na, ns)} :
                FreeMerges(p, o, pa, ps, na, ns, FirstKept(l, {}))]_mmvars

\* C36 amended: the same, except that the forward-link of the merged block
\* is the first node of the list as it was before the call that is not an
\* absorbed neighbour (null when there is none): the head the list has once
\* the absorbed neighbours are removed from it.
C36_FreeMerges ==
    [][\A p \in DOMAIN live :
          (lastOp'.op = "free" /\ lastOp'.ptr = p /\ nops' = nops + 1) =>
             \A o \in {live[p]} :
             \A pa \in {AllocAt(p - DSIZE)} : \A ps \in {SizeAt(p - DSIZE)} :
             \A na \in {AllocAt(HDRP(p + o))} : \A ns \in {SizeAt(HDRP(p + o))} :
             \A l \in {FormerList(p, o, pa, ps, na, ns)} :
                FreeMerges(p, o, pa, ps, na, ns,
                           FirstKept(l, Absorbed(p, o, pa, ps, na)))]_mmvars

\* a = malloc(16), b = malloc(16), free(a), free(b): the last call found
\* both neighbours of b free and left one free block, the whole chunk, at a
C36_Witness ==
    /\ nops = 4 /\ live = <<>>
    /\ lastOp.op = "free" /\ lastOp.ptr = FirstBlock + MINIMUM_BLK_SIZE
    /\ lastOp.osize = MINIMUM_BLK_SIZE
    /\ FreeBlocks = {FirstBlock}
    /\ SizeAt(HDRP(FirstBlock)) = CHUNKSIZE
    /\ ClassList(get_list_index(CHUNKSIZE)) = <<FirstBlock>>

C38_HeapGrowth ==
    [][/\ \A a \in {malloc_a_size(lastOp'.size)} :
          \A ta \in {AllocAt(mem_heap_lo + brk - DSIZE)} :
          \A ts \in {SizeAt(mem_heap_lo + brk - DSIZE)} :
          \A bp \in {mem_heap_lo + brk - (IF ta = 0 THEN ts ELSE 0)} :
             (lastOp'.op = "malloc" /\ nops' = nops + 1 /\ lastOp'.ret # NULL) =>
                IF \A b \in FreeBlocks : SizeAt(HDRP(b)) < a
                THEN /\ brk' = brk + MAX(a, CHUNKSIZE)
                     /\ CHUNKSIZE = 168
                     /\ lastOp'.ret = bp
                     /\ SizeAt(HDRP(bp))' >= a
                ELSE brk' = brk
       /\ (lastOp'.op = "free" /\ nops' = nops + 1) => brk' = brk
       /\ (/\ lastOp'.op = "realloc" /\ nops' = nops + 1
           /\ lastOp'.size > 0 /\ lastOp'.ret # NULL /\ lastOp'.ret = lastOp'.ptr)
              => brk' = brk
       /\ brk' >= brk
       /\ origin' = origin]_mmvars

\* malloc(200) on the heap of one free chunk: find_fit missed, the heap grew
\* by 208 bytes, the new bytes were merged with the chunk and the block of
\* 208 bytes starts where the chunk started
C38_Witness ==
    /\ nops = 1
    /\ lastOp = [op |-> "malloc", ptr |-> NULL, osize |-> 0, size |-> 200,
                 ret |-> FirstBlock]
    /\ brk = LISTS * DSIZE + 4 * WSIZE + CHUNKSIZE + 208
    /\ SizeAt(HDRP(FirstBlock)) = 208
    /\ FreeBlocks = {FirstBlock + 208}
    /\ SizeAt(HDRP(FirstBlock + 208)) = CHUNKSIZE

(***************************************************************************)
(* One worker of the proxy in doit (proxy.c).  The bytes of a response are *)
(* numbered in the order the server sends them.  The functions of csapp.c  *)
(* are not part of the sources: a read from the server is modelled by its  *)
(* result, the number of bytes it delivered, 0 at the end of the response  *)
(* and -1 when it failed.                                                  *)
(***************************************************************************)
\* unsigned int and int of IntBits bits
UIntMod == 2 ^ IntBits
ToInt(u) == IF u >= UIntMod \div 2 THEN u - UIntMod ELSE u

\* a byte that is none of the response
Garbage == 0 - 1

\* no call of write_cache
NoWrite == [content |-> <<>>, len |-> 0 - 1]

\* the results of the reads of a response: the status line, header lines, the
\* empty line, body chunks, the end; or the start of one, then a failed read
ReadsOf(kind) == {[kind |-> kind, r |-> n] : n \in 1..MaxLine}
RECURSIVE SeqsUpTo(_, _)
SeqsUpTo(S, n) ==
    IF n = 0 THEN {<<>>}
    ELSE {<<>>} \cup {<<x>> \o q : x \in S, q \in SeqsUpTo(S, n - 1)}
Complete ==
    {<<st>> \o hs \o <<[kind |-> "blank", r |-> 2]>> \o cs \o <<[kind |-> "eof", r |-> 0]>> :
        st \in ReadsOf("line"), hs \in SeqsUpTo(ReadsOf("line"), MaxHeaders),
        cs \in SeqsUpTo(ReadsOf("chunk"), MaxChunks)}
Broken ==
    UNION {{SubSeq(f, 1, k) \o <<[kind |-> "fail", r |-> 0 - 1]>> : k \in 0..(Len(f) - 1)} :
              f \in Complete}
Responses == Complete \cup Broken

\* the worker before it reads a request
ProxyStart ==
    /\ ppc = "request"
    /\ server_response = <<>>
    /\ read_len = 0
    /\ cache_content = [i \in 1..MAX_OBJECT_SIZE |-> 0]
    /\ cache_write_len = 0
    /\ forwarded = <<>>
    /\ proxyfd = "none"
    /\ cache_write = NoWrite
    /\ received = <<>>
    /\ exceeded = FALSE

\* a worker that has a GET request to serve: the cache is enabled or not, the
\* cache has the object (of 1 byte) or not, the server sends one of the
\* responses, and the client takes some writes before its connection breaks
ProxyInit ==
    /\ cache_enable \in BOOLEAN
    /\ cache_read_len \in {0 - 1, 1}
    /\ cache_enable = FALSE => cache_read_len = 0 - 1
    /\ upstream \in Responses
    /\ clientOk \in 0..(MaxHeaders + MaxChunks + 2)
    /\ ProxyStart

\* no worker
ProxyIdle ==
    /\ cache_enable = TRUE
    /\ cache_read_len = 0 - 1
    /\ upstream = <<>>
    /\ clientOk = 0
    /\ ProxyStart

\* a plausible slip: every piece is copied to the start of the buffer
end_of_content_start(content, length) == 0

\* end_of_content: the offset in content of the pointer it returns
end_of_content(content, length) == length

\* memcpy(dest, src, n) where dest is the offset at in the buffer content
memcpy_at(content, at, src, n) ==
    [i \in DOMAIN content |-> IF i > at /\ i <= at + n THEN src[i - at] ELSE content[i]]

\* the worker returns after it closed the connection to the server
CloseReturn ==
    /\ proxyfd' = "closed"
    /\ ppc' = "returned"

\* Rio_writen_r(connfd, server_response, n) of the n bytes data and what
\* follows a failure.  A write of more bytes than the buffer has reads
\* beyond it: the kernel sends what it can read, the buffer and what lies
\* behind it, or nothing, and the write fails.
Forward(data, n, after) ==
    IF n > MaxLine
    THEN /\ \E sent \in {<<>>, server_response' \o <<Garbage>>} :
               forwarded' = forwarded \o sent
         /\ CloseReturn
         /\ UNCHANGED clientOk
    ELSE IF clientOk = 0
    THEN /\ CloseReturn
         /\ UNCHANGED <<forwarded, clientOk>>
    ELSE /\ forwarded' = forwarded \o data
         /\ clientOk' = clientOk - 1
         /\ ppc' = after
         /\ UNCHANGED proxyfd

\* one read from the server with the result r, the copy into the local
\* buffer and the write to the client (proxy.c:312-343, 350-382, 391-416):
\* r is stored in the unsigned read_len, so that a test read_len < 0 never
\* holds; cache_write_len + read_len is an unsigned sum.  A memcpy of more
\* bytes than the buffers have ends the process.
Relay(r, after) ==
    LET rl == r % UIntMod
        data == IF r > 0 THEN [i \in 1..r |-> Len(received) + i] ELSE <<>>
        sum == (cache_write_len + rl) % UIntMod
    IN  /\ upstream' = Tail(upstream)
        /\ read_len' = rl
        /\ server_response' = (IF r > 0 THEN data ELSE server_response)
        /\ received' = received \o data
        /\ UNCHANGED <<cache_enable, cache_read_len, cache_write>>
        /\ IF cache_enable /\ sum <= MAX_OBJECT_SIZE /\ rl > MaxLine
           THEN /\ ppc' = "crashed"
                /\ UNCHANGED <<cache_content, cache_write_len, exceeded, forwarded,
                               proxyfd, clientOk>>
           ELSE /\ cache_content' =
                      IF cache_enable /\ sum <= MAX_OBJECT_SIZE
                      THEN memcpy_at(cache_content,
                                     end_of_content(cache_content, cache_write_len),
                                     data, rl)
                      ELSE cache_content
                /\ cache_write_len' = (IF cache_enable THEN ToInt(sum) ELSE cache_write_len)
                /\ exceeded' = (exceeded \/ (cache_enable /\ ToInt(sum) > MAX_OBJECT_SIZE))
                /\ Forward(data, rl, after)

\* doit up to the first read from the server: a cache hit is sent to the
\* client; on a miss the worker connects to the server (which may fail) and
\* sends the request
DoitRequest ==
    /\ ppc = "request"
    /\ IF cache_read_len < 0
       THEN \E connected \in BOOLEAN :
               /\ proxyfd' = (IF connected THEN "open" ELSE "none")
               /\ ppc' = (IF connected THEN "status" ELSE "returned")
               /\ UNCHANGED forwarded
       ELSE /\ forwarded' = [i \in 1..cache_read_len |-> i]
            /\ ppc' = "returned"
            /\ UNCHANGED proxyfd
    /\ UNCHANGED <<cache_enable, cache_read_len, upstream, clientOk, server_response,
                   read_len, cache_content, cache_write_len, cache_write, received,
                   exceeded>>
    /\ UNCHANGED <<mmvars, cachevars>>

\* the response line
DoitStatus ==
    /\ ppc = "status"
    /\ Relay(Head(upstream).r, "headers")
    /\ UNCHANGED <<mmvars, cachevars>>

\* one pass of the loop over the response headers, left after the empty line
DoitHeader ==
    /\ ppc = "headers"
    /\ Relay(Head(upstream).r, IF Head(upstream).kind = "blank" THEN "body" ELSE "headers")
    /\ UNCHANGED <<mmvars, cachevars>>

\* one pass of the loop over the response body: read_len > 0
DoitBody ==
    /\ ppc = "body"
    /\ Head(upstream).r % UIntMod > 0
    /\ Relay(Head(upstream).r, "body")
    /\ UNCHANGED <<mmvars, cachevars>>

\* the read that ends the loop over the body, the call of write_cache when
\* cache_write_len <= MAX_OBJECT_SIZE, and the close
DoitFinish ==
    /\ ppc = "body"
    /\ Head(upstream).r % UIntMod = 0
    /\ upstream' = Tail(upstream)
    /\ read_len' = 0
    /\ cache_write' =
          IF cache_enable /\ cache_write_len <= MAX_OBJECT_SIZE
          THEN [content |-> [i \in 1..cache_write_len |-> cache_content[i]],
                len |-> cache_write_len]
          ELSE cache_write
    /\ CloseReturn
    /\ UNCHANGED <<cache_enable, cache_read_len, clientOk, server_response, cache_content,
                   cache_write_len, forwarded, received, exceeded>>
    /\ UNCHANGED <<mmvars, cachevars>>

ProxyNext ==
    \/ DoitRequest
    \/ DoitStatus
    \/ DoitHeader
    \/ DoitBody
    \/ DoitFinish

\* the worker has relayed the response to its end
Relayed == ppc = "returned" /\ proxyfd = "closed" /\ read_len = 0

C40_FailedReadReturns ==
    [][(ppc \in {"status", "headers", "body"} /\ Head(upstream).r < 0) =>
          /\ ppc' = "returned"
          /\ proxyfd' = "closed"
          /\ forwarded' = forwarded
          /\ cache_write_len' = cache_write_len
          /\ cache_write' = cache_write]_proxyvars

(***************************************************************************)
(* Specifications: the allocator driven by its client (with two sets of    *)
(* request sizes), mm_init alone on substrates of every size, and the      *)
(* cache driven by its threads.  Each leaves the other subsystem untouched.*)
(***************************************************************************)
vars == <<mmvars, cachevars, proxyvars>>

Init == MmInit /\ CacheInit /\ ProxyIdle
Next == MmNext
Spec == Init /\ [][Next]_vars

\* the allocator before mm_init
MmIdle ==
    /\ mem = <<>>
    /\ brk = 0
    /\ origin = 0
    /\ heap_listp = 0
    /\ live = <<>>
    /\ written = {}
    /\ lastOp = [op |-> "none", ptr |-> NULL, osize |-> 0, size |-> 0, ret |-> NULL]
    /\ nops = 0
    /\ crashed = FALSE
    /\ mem_max = 0

\* the allocator driven by the client of the in-place grow scenario
GrowSpec == Init /\ [][GrowNext]_vars

\* one worker on a cache of 10 bytes whose objects may have 10 bytes
ScenarioInit == ClientInit({<<10, 10>>}) /\ MmIdle /\ ProxyIdle
ScenarioSpec == ScenarioInit /\ [][ClientNext]_vars

\* one worker on caches of several sizes <<max_cache_size, max_object_size>>,
\* the object size below, at and above the cache size
AnySizeInit == ClientInit({<<1, 3>>, <<3, 1>>, <<3, 3>>, <<5, 5>>}) /\ MmIdle /\ ProxyIdle
AnySizeSpec == AnySizeInit /\ [][ClientNext]_vars

\* the allocator on the larger substrate, under the client that asks for
\* more than one chunk
ExtendInit == MmInitOn(BigHeap) /\ CacheInit /\ ProxyIdle
ExtendSpec == ExtendInit /\ [][ExtendNext]_vars

\* the size computations of malloc and realloc on small and on huge requests
AdjustSpec == Init /\ [][AdjustNext]_vars

\* the allocator under the client of the coalescing scenario
CoalesceSpec == Init /\ [][CoalesceNext /\ UNCHANGED <<cachevars, proxyvars>>]_vars

\* mm_init on substrates of every size
InitSpecInit == MmBoot /\ CacheInit /\ ProxyIdle
InitSpecNext == MmInitCall
InitSpec == InitSpecInit /\ [][InitSpecNext]_vars

CacheSpecInit == CacheInit /\ MmIdle /\ ProxyIdle
CacheSpecNext == CacheNext
CacheSpec == CacheSpecInit /\ [][CacheSpecNext]_vars

\* one worker of the proxy serving one GET request; the cache is the one
\* main built, and no call of the model changes it
ProxySpecInit == ProxyInit /\ CacheInit /\ MmIdle
ProxySpec == ProxySpecInit /\ [][ProxyNext]_vars

\* the cache under calls made one after the other
SeqSpec == CacheSpecInit /\ [][SeqNext]_vars

\* the cache with threads that are scheduled: a thread whose next step stays
\* possible takes it.  The calls themselves are the client's, and at most
\* MaxCalls are made.
FairCacheSpec ==
    /\ CacheSpecInit
    /\ [][CacheSpecNext]_vars
    /\ \A t \in Threads : WF_vars(Proceed(t))

\* the cache under continuous reader load.  Every thread is scheduled again
\* and again: a step of a thread that is possible infinitely often is taken.
StarveSpecInit == StarveInit /\ MmIdle /\ ProxyIdle
StarveSpec ==
    /\ StarveSpecInit
    /\ [][StarveNext]_vars
    /\ \A r \in Threads : SF_vars(ReaderStep(r))
    /\ SF_vars(WriterStep(Writer))

====
